---- MODULE Spec2Model ----
(***************************************************************************)
(* BoxLoader (src/src/document_loaders.ts, the class starting at line 220) *)
(* as a state machine: the loader is one sequential async program whose    *)
(* steps are its awaits (remote calls and timers); the remote service      *)
(* answers every call nondeterministically.                                *)
(*                                                                         *)
(* Strings are sequences of one-character strings, so that toLowerCase,    *)
(* lastIndexOf, substring, trim and template concatenation are computed    *)
(* as the code computes them.                                              *)
(***************************************************************************)
EXTENDS Integers, Sequences, FiniteSets, TLC

(***************************************************************************)
(* String literals of the source.                                          *)
(***************************************************************************)
imageExtensions ==
    { <<".", "g", "i", "f">>,
      <<".", "j", "p", "e", "g">>,
      <<".", "j", "p", "g">>,
      <<".", "p", "n", "g">>,
      <<".", "s", "v", "g">>,
      <<".", "b", "m", "p">>,
      <<".", "e", "p", "s">>,
      <<".", "t", "i", "f">>,
      <<".", "t", "i", "f", "f">>,
      <<".", "t", "g", "a">>,
      <<".", "a", "r", "w">>,
      <<".", "c", "r", "2">>,
      <<".", "d", "n", "g">>,
      <<".", "n", "e", "f">>,
      <<".", "e", "x", "r">>,
      <<".", "h", "e", "i", "c">>,
      <<".", "d", "c", "m">>,
      <<".", "d", "i", "c", "m">>,
      <<".", "d", "i", "c", "o", "m">>,
      <<".", "s", "v", "s">>,
      <<".", "i", "n", "d", "d">>,
      <<".", "i", "n", "d", "m", "l">>,
      <<".", "i", "n", "d", "t">>,
      <<".", "i", "n", "x">> }

videoExtensions ==
    { <<".", "m", "p", "4">>,
      <<".", "m", "4", "v">>,
      <<".", "m", "o", "v">>,
      <<".", "a", "v", "i">>,
      <<".", "m", "k", "v">>,
      <<".", "w", "e", "b", "m">>,
      <<".", "w", "m", "v">>,
      <<".", "f", "l", "v">>,
      <<".", "m", "p", "e", "g">>,
      <<".", "m", "p", "g">>,
      <<".", "m", "2", "t", "s">>,
      <<".", "m", "t", "s">>,
      <<".", "3", "g", "p">> }

markdownExts ==
    { <<".", "d", "o", "c", "x">>,
      <<".", "p", "p", "t", "x">>,
      <<".", "x", "l", "s">>,
      <<".", "x", "l", "s", "x">>,
      <<".", "x", "l", "s", "m">>,
      <<".", "g", "d", "o", "c">>,
      <<".", "g", "s", "l", "i", "d", "e">>,
      <<".", "g", "s", "l", "i", "d", "e", "s">>,
      <<".", "g", "s", "h", "e", "e", "t">>,
      <<".", "p", "d", "f">> }

S_markdown == <<"m", "a", "r", "k", "d", "o", "w", "n">>
S_extracted_text == <<"e", "x", "t", "r", "a", "c", "t", "e", "d", "_", "t", "e", "x", "t">>
S_ErrorReadingFile == <<"[", "E", "r", "r", "o", "r", " ", "r", "e", "a", "d", "i", "n", "g", " ", "f", "i", "l", "e", ":", " ">>
S_ErrorNoRepsAvailableFor == <<"[", "E", "r", "r", "o", "r", ":", " ", "N", "o", " ", "r", "e", "p", "r", "e", "s", "e", "n", "t", "a", "t", "i", "o", "n", "s", " ", "a", "v", "a", "i", "l", "a", "b", "l", "e", " ", "f", "o", "r", " ">>
S_ErrorNo == <<"[", "E", "r", "r", "o", "r", ":", " ", "N", "o", " ">>
S_RepAvailableFor == <<" ", "r", "e", "p", "r", "e", "s", "e", "n", "t", "a", "t", "i", "o", "n", " ", "a", "v", "a", "i", "l", "a", "b", "l", "e", " ", "f", "o", "r", " ">>
S_Info == <<"[", "I", "n", "f", "o", ":", " ">>
S_StillProcessingFor == <<" ", "r", "e", "p", "r", "e", "s", "e", "n", "t", "a", "t", "i", "o", "n", " ", "s", "t", "i", "l", "l", " ", "p", "r", "o", "c", "e", "s", "s", "i", "n", "g", " ", "f", "o", "r", " ">>
S_Error == <<"[", "E", "r", "r", "o", "r", ":", " ">>
S_ExtractionFailedFor == <<" ", "e", "x", "t", "r", "a", "c", "t", "i", "o", "n", " ", "f", "a", "i", "l", "e", "d", " ", "f", "o", "r", " ">>
S_ErrorUnknown == <<"[", "E", "r", "r", "o", "r", ":", " ", "U", "n", "k", "n", "o", "w", "n", " ">>
S_RepStateFor == <<" ", "r", "e", "p", "r", "e", "s", "e", "n", "t", "a", "t", "i", "o", "n", " ", "s", "t", "a", "t", "e", " ", "f", "o", "r", " ">>
S_RepUrlAvailableFor == <<" ", "r", "e", "p", "r", "e", "s", "e", "n", "t", "a", "t", "i", "o", "n", " ", "U", "R", "L", " ", "a", "v", "a", "i", "l", "a", "b", "l", "e", " ", "f", "o", "r", " ">>
S_ErrorFailedToGet == <<"[", "E", "r", "r", "o", "r", ":", " ", "F", "a", "i", "l", "e", "d", " ", "t", "o", " ", "g", "e", "t", " ">>
S_RepUrlFor == <<" ", "r", "e", "p", "r", "e", "s", "e", "n", "t", "a", "t", "i", "o", "n", " ", "U", "R", "L", " ", "f", "o", "r", " ">>
S_Status == <<" ", "-", " ", "S", "t", "a", "t", "u", "s", ":", " ">>
S_ErrorInvalidFormatFor == <<"[", "E", "r", "r", "o", "r", ":", " ", "I", "n", "v", "a", "l", "i", "d", " ", "r", "e", "p", "r", "e", "s", "e", "n", "t", "a", "t", "i", "o", "n", " ", "d", "a", "t", "a", " ", "f", "o", "r", "m", "a", "t", " ", "f", "o", "r", " ">>
S_ErrorFailedToFetch == <<"[", "E", "r", "r", "o", "r", ":", " ", "F", "a", "i", "l", "e", "d", " ", "t", "o", " ", "f", "e", "t", "c", "h", " ">>
S_ContentFor == <<" ", "c", "o", "n", "t", "e", "n", "t", " ", "f", "o", "r", " ">>
S_ErrorNetwork == <<"[", "E", "r", "r", "o", "r", ":", " ", "N", "e", "t", "w", "o", "r", "k", " ", "e", "r", "r", "o", "r", " ", "w", "h", "i", "l", "e", " ", "f", "e", "t", "c", "h", "i", "n", "g", " ">>
S_RepFor == <<" ", "r", "e", "p", "r", "e", "s", "e", "n", "t", "a", "t", "i", "o", "n", " ", "f", "o", "r", " ">>
S_Close == <<"]">>
S_BoxFile == <<"b", "o", "x", ":", "/", "/", "f", "i", "l", "e", "/">>
S_BoxUrl == <<"h", "t", "t", "p", "s", ":", "/", "/", "a", "p", "p", ".", "b", "o", "x", ".", "c", "o", "m", "/", "f", "i", "l", "e", "/">>
S_AssetPath == <<"{", "+", "a", "s", "s", "e", "t", "_", "p", "a", "t", "h", "}">>
T_HelloWorld == <<"h", "e", "l", "l", "o", " ", "w", "o", "r", "l", "d">>
\* white space only: a space, a form feed, a no-break space, a line feed
T_Blank == <<" ", "\f", "U+00A0", "\n">>
N_a_txt == <<"a", ".", "t", "x", "t">>
N_B_PNG == <<"B", ".", "P", "N", "G">>
N_c_pdf == <<"c", ".", "p", "d", "f">>
N_d_Mp4 == <<"d", ".", "M", "p", "4">>
N_png == <<"p", "n", "g">>
T_Empty == << >>
T_Hi == <<"h", "i">>

\* An absent (undefined) string-valued property; no string has this shape.
Absent == << "<undefined>" >>
\* An optional number is << >> (undefined) or <<n>>.
NoNumber == << >>

(***************************************************************************)
(* String primitives of JavaScript used by the loader.                     *)
(***************************************************************************)
UpperChars == <<"A","B","C","D","E","F","G","H","I","J","K","L","M",
                "N","O","P","Q","R","S","T","U","V","W","X","Y","Z">>
LowerChars == <<"a","b","c","d","e","f","g","h","i","j","k","l","m",
                "n","o","p","q","r","s","t","u","v","w","x","y","z">>

\* A code unit that is not written as itself is written as the token "U+"
\* and its four hexadecimal digits; a code point above U+FFFF is the two
\* code units of its surrogate pair.
HexDigits == <<"0","1","2","3","4","5","6","7","8","9","A","B","C","D","E","F">>

CodeUnitToken(n) ==
    "U+" \o HexDigits[((n \div 4096) % 16) + 1] \o HexDigits[((n \div 256) % 16) + 1]
         \o HexDigits[((n \div 16) % 16) + 1] \o HexDigits[(n % 16) + 1]

CodeUnits(cp) ==
    IF cp < \h10000 THEN << CodeUnitToken(cp) >>
    ELSE << CodeUnitToken(\hD800 + ((cp - \h10000) \div \h400)),
            CodeUnitToken(\hDC00 + ((cp - \h10000) % \h400)) >>

HighSurrogates == {CodeUnitToken(n) : n \in \hD800..\hDBFF}
LowSurrogates == {CodeUnitToken(n) : n \in \hDC00..\hDFFF}

\* 'I' with a dot above (U+0130) is the one character whose lower case is
\* two code units: 'i' followed by the combining dot above (U+0307)
C_IDot == "U+0130"
C_DotAbove == "U+0307"
\* the Kelvin sign, whose lower case is the letter k
C_Kelvin == "U+212A"
\* capital sigma, small sigma and the small sigma that ends a word
C_Sigma == "U+03A3"
C_SmallSigma == "U+03C3"
C_FinalSigma == "U+03C2"

\* The lower-case mappings of the Unicode character database (version 17.0,
\* the one String.prototype.toLowerCase reads in the runtime) above ASCII, as
\* <<first, last, step, shift>>: each code point first, first + step, ...,
\* last has the lower case code point + shift.  (U+0130, U+212A and U+03A3
\* are the characters named above.)
LowercaseMappings == <<
    <<\h00C0, \h00D6, 1, 32>>, <<\h00D8, \h00DE, 1, 32>>, <<\h0100, \h012E, 2, 1>>,
    <<\h0132, \h0136, 2, 1>>, <<\h0139, \h0147, 2, 1>>, <<\h014A, \h0176, 2, 1>>,
    <<\h0178, \h0178, 1, -121>>, <<\h0179, \h017D, 2, 1>>, <<\h0181, \h0181, 1, 210>>,
    <<\h0182, \h0184, 2, 1>>, <<\h0186, \h0186, 1, 206>>, <<\h0187, \h0187, 1, 1>>,
    <<\h0189, \h018A, 1, 205>>, <<\h018B, \h018B, 1, 1>>, <<\h018E, \h018E, 1, 79>>,
    <<\h018F, \h018F, 1, 202>>, <<\h0190, \h0190, 1, 203>>, <<\h0191, \h0191, 1, 1>>,
    <<\h0193, \h0193, 1, 205>>, <<\h0194, \h0194, 1, 207>>, <<\h0196, \h0196, 1, 211>>,
    <<\h0197, \h0197, 1, 209>>, <<\h0198, \h0198, 1, 1>>, <<\h019C, \h019C, 1, 211>>,
    <<\h019D, \h019D, 1, 213>>, <<\h019F, \h019F, 1, 214>>, <<\h01A0, \h01A4, 2, 1>>,
    <<\h01A6, \h01A6, 1, 218>>, <<\h01A7, \h01A7, 1, 1>>, <<\h01A9, \h01A9, 1, 218>>,
    <<\h01AC, \h01AC, 1, 1>>, <<\h01AE, \h01AE, 1, 218>>, <<\h01AF, \h01AF, 1, 1>>,
    <<\h01B1, \h01B2, 1, 217>>, <<\h01B3, \h01B5, 2, 1>>, <<\h01B7, \h01B7, 1, 219>>,
    <<\h01B8, \h01B8, 1, 1>>, <<\h01BC, \h01BC, 1, 1>>, <<\h01C4, \h01C4, 1, 2>>,
    <<\h01C5, \h01C5, 1, 1>>, <<\h01C7, \h01C7, 1, 2>>, <<\h01C8, \h01C8, 1, 1>>,
    <<\h01CA, \h01CA, 1, 2>>, <<\h01CB, \h01DB, 2, 1>>, <<\h01DE, \h01EE, 2, 1>>,
    <<\h01F1, \h01F1, 1, 2>>, <<\h01F2, \h01F4, 2, 1>>, <<\h01F6, \h01F6, 1, -97>>,
    <<\h01F7, \h01F7, 1, -56>>, <<\h01F8, \h021E, 2, 1>>, <<\h0220, \h0220, 1, -130>>,
    <<\h0222, \h0232, 2, 1>>, <<\h023A, \h023A, 1, 10795>>, <<\h023B, \h023B, 1, 1>>,
    <<\h023D, \h023D, 1, -163>>, <<\h023E, \h023E, 1, 10792>>, <<\h0241, \h0241, 1, 1>>,
    <<\h0243, \h0243, 1, -195>>, <<\h0244, \h0244, 1, 69>>, <<\h0245, \h0245, 1, 71>>,
    <<\h0246, \h024E, 2, 1>>, <<\h0370, \h0372, 2, 1>>, <<\h0376, \h0376, 1, 1>>,
    <<\h037F, \h037F, 1, 116>>, <<\h0386, \h0386, 1, 38>>, <<\h0388, \h038A, 1, 37>>,
    <<\h038C, \h038C, 1, 64>>, <<\h038E, \h038F, 1, 63>>, <<\h0391, \h03A1, 1, 32>>,
    <<\h03A4, \h03AB, 1, 32>>, <<\h03CF, \h03CF, 1, 8>>, <<\h03D8, \h03EE, 2, 1>>,
    <<\h03F4, \h03F4, 1, -60>>, <<\h03F7, \h03F7, 1, 1>>, <<\h03F9, \h03F9, 1, -7>>,
    <<\h03FA, \h03FA, 1, 1>>, <<\h03FD, \h03FF, 1, -130>>, <<\h0400, \h040F, 1, 80>>,
    <<\h0410, \h042F, 1, 32>>, <<\h0460, \h0480, 2, 1>>, <<\h048A, \h04BE, 2, 1>>,
    <<\h04C0, \h04C0, 1, 15>>, <<\h04C1, \h04CD, 2, 1>>, <<\h04D0, \h052E, 2, 1>>,
    <<\h0531, \h0556, 1, 48>>, <<\h10A0, \h10C5, 1, 7264>>, <<\h10C7, \h10C7, 1, 7264>>,
    <<\h10CD, \h10CD, 1, 7264>>, <<\h13A0, \h13EF, 1, 38864>>, <<\h13F0, \h13F5, 1, 8>>,
    <<\h1C89, \h1C89, 1, 1>>, <<\h1C90, \h1CBA, 1, -3008>>, <<\h1CBD, \h1CBF, 1, -3008>>,
    <<\h1E00, \h1E94, 2, 1>>, <<\h1E9E, \h1E9E, 1, -7615>>, <<\h1EA0, \h1EFE, 2, 1>>,
    <<\h1F08, \h1F0F, 1, -8>>, <<\h1F18, \h1F1D, 1, -8>>, <<\h1F28, \h1F2F, 1, -8>>,
    <<\h1F38, \h1F3F, 1, -8>>, <<\h1F48, \h1F4D, 1, -8>>, <<\h1F59, \h1F5F, 2, -8>>,
    <<\h1F68, \h1F6F, 1, -8>>, <<\h1F88, \h1F8F, 1, -8>>, <<\h1F98, \h1F9F, 1, -8>>,
    <<\h1FA8, \h1FAF, 1, -8>>, <<\h1FB8, \h1FB9, 1, -8>>, <<\h1FBA, \h1FBB, 1, -74>>,
    <<\h1FBC, \h1FBC, 1, -9>>, <<\h1FC8, \h1FCB, 1, -86>>, <<\h1FCC, \h1FCC, 1, -9>>,
    <<\h1FD8, \h1FD9, 1, -8>>, <<\h1FDA, \h1FDB, 1, -100>>, <<\h1FE8, \h1FE9, 1, -8>>,
    <<\h1FEA, \h1FEB, 1, -112>>, <<\h1FEC, \h1FEC, 1, -7>>, <<\h1FF8, \h1FF9, 1, -128>>,
    <<\h1FFA, \h1FFB, 1, -126>>, <<\h1FFC, \h1FFC, 1, -9>>, <<\h2126, \h2126, 1, -7517>>,
    <<\h212B, \h212B, 1, -8262>>, <<\h2132, \h2132, 1, 28>>, <<\h2160, \h216F, 1, 16>>,
    <<\h2183, \h2183, 1, 1>>, <<\h24B6, \h24CF, 1, 26>>, <<\h2C00, \h2C2F, 1, 48>>,
    <<\h2C60, \h2C60, 1, 1>>, <<\h2C62, \h2C62, 1, -10743>>, <<\h2C63, \h2C63, 1, -3814>>,
    <<\h2C64, \h2C64, 1, -10727>>, <<\h2C67, \h2C6B, 2, 1>>, <<\h2C6D, \h2C6D, 1, -10780>>,
    <<\h2C6E, \h2C6E, 1, -10749>>, <<\h2C6F, \h2C6F, 1, -10783>>, <<\h2C70, \h2C70, 1, -10782>>,
    <<\h2C72, \h2C72, 1, 1>>, <<\h2C75, \h2C75, 1, 1>>, <<\h2C7E, \h2C7F, 1, -10815>>,
    <<\h2C80, \h2CE2, 2, 1>>, <<\h2CEB, \h2CED, 2, 1>>, <<\h2CF2, \h2CF2, 1, 1>>,
    <<\hA640, \hA66C, 2, 1>>, <<\hA680, \hA69A, 2, 1>>, <<\hA722, \hA72E, 2, 1>>,
    <<\hA732, \hA76E, 2, 1>>, <<\hA779, \hA77B, 2, 1>>, <<\hA77D, \hA77D, 1, -35332>>,
    <<\hA77E, \hA786, 2, 1>>, <<\hA78B, \hA78B, 1, 1>>, <<\hA78D, \hA78D, 1, -42280>>,
    <<\hA790, \hA792, 2, 1>>, <<\hA796, \hA7A8, 2, 1>>, <<\hA7AA, \hA7AA, 1, -42308>>,
    <<\hA7AB, \hA7AB, 1, -42319>>, <<\hA7AC, \hA7AC, 1, -42315>>, <<\hA7AD, \hA7AD, 1, -42305>>,
    <<\hA7AE, \hA7AE, 1, -42308>>, <<\hA7B0, \hA7B0, 1, -42258>>, <<\hA7B1, \hA7B1, 1, -42282>>,
    <<\hA7B2, \hA7B2, 1, -42261>>, <<\hA7B3, \hA7B3, 1, 928>>, <<\hA7B4, \hA7C2, 2, 1>>,
    <<\hA7C4, \hA7C4, 1, -48>>, <<\hA7C5, \hA7C5, 1, -42307>>, <<\hA7C6, \hA7C6, 1, -35384>>,
    <<\hA7C7, \hA7C9, 2, 1>>, <<\hA7CB, \hA7CB, 1, -42343>>, <<\hA7CC, \hA7DA, 2, 1>>,
    <<\hA7DC, \hA7DC, 1, -42561>>, <<\hA7F5, \hA7F5, 1, 1>>, <<\hFF21, \hFF3A, 1, 32>>,
    <<\h10400, \h10427, 1, 40>>, <<\h104B0, \h104D3, 1, 40>>, <<\h10570, \h1057A, 1, 39>>,
    <<\h1057C, \h1058A, 1, 39>>, <<\h1058C, \h10592, 1, 39>>, <<\h10594, \h10595, 1, 39>>,
    <<\h10C80, \h10CB2, 1, 64>>, <<\h10D50, \h10D65, 1, 32>>, <<\h118A0, \h118BF, 1, 32>>,
    <<\h16E40, \h16E5F, 1, 32>>, <<\h16EA0, \h16EB8, 1, 27>>, <<\h1E900, \h1E921, 1, 34>> >>

\* The code points above ASCII with the property Case_Ignorable (Unicode
\* 17.0), as <<first, last>>
CaseIgnorableRanges == <<
    <<\h00A8, \h00A8>>, <<\h00AD, \h00AD>>, <<\h00AF, \h00AF>>, <<\h00B4, \h00B4>>, <<\h00B7, \h00B8>>,
    <<\h02B0, \h036F>>, <<\h0374, \h0375>>, <<\h037A, \h037A>>, <<\h0384, \h0385>>, <<\h0387, \h0387>>,
    <<\h0483, \h0489>>, <<\h0559, \h0559>>, <<\h055F, \h055F>>, <<\h0591, \h05BD>>, <<\h05BF, \h05BF>>,
    <<\h05C1, \h05C2>>, <<\h05C4, \h05C5>>, <<\h05C7, \h05C7>>, <<\h05F4, \h05F4>>, <<\h0600, \h0605>>,
    <<\h0610, \h061A>>, <<\h061C, \h061C>>, <<\h0640, \h0640>>, <<\h064B, \h065F>>, <<\h0670, \h0670>>,
    <<\h06D6, \h06DD>>, <<\h06DF, \h06E8>>, <<\h06EA, \h06ED>>, <<\h070F, \h070F>>, <<\h0711, \h0711>>,
    <<\h0730, \h074A>>, <<\h07A6, \h07B0>>, <<\h07EB, \h07F5>>, <<\h07FA, \h07FA>>, <<\h07FD, \h07FD>>,
    <<\h0816, \h082D>>, <<\h0859, \h085B>>, <<\h0888, \h0888>>, <<\h0890, \h0891>>, <<\h0897, \h089F>>,
    <<\h08C9, \h0902>>, <<\h093A, \h093A>>, <<\h093C, \h093C>>, <<\h0941, \h0948>>, <<\h094D, \h094D>>,
    <<\h0951, \h0957>>, <<\h0962, \h0963>>, <<\h0971, \h0971>>, <<\h0981, \h0981>>, <<\h09BC, \h09BC>>,
    <<\h09C1, \h09C4>>, <<\h09CD, \h09CD>>, <<\h09E2, \h09E3>>, <<\h09FE, \h09FE>>, <<\h0A01, \h0A02>>,
    <<\h0A3C, \h0A3C>>, <<\h0A41, \h0A42>>, <<\h0A47, \h0A48>>, <<\h0A4B, \h0A4D>>, <<\h0A51, \h0A51>>,
    <<\h0A70, \h0A71>>, <<\h0A75, \h0A75>>, <<\h0A81, \h0A82>>, <<\h0ABC, \h0ABC>>, <<\h0AC1, \h0AC5>>,
    <<\h0AC7, \h0AC8>>, <<\h0ACD, \h0ACD>>, <<\h0AE2, \h0AE3>>, <<\h0AFA, \h0AFF>>, <<\h0B01, \h0B01>>,
    <<\h0B3C, \h0B3C>>, <<\h0B3F, \h0B3F>>, <<\h0B41, \h0B44>>, <<\h0B4D, \h0B4D>>, <<\h0B55, \h0B56>>,
    <<\h0B62, \h0B63>>, <<\h0B82, \h0B82>>, <<\h0BC0, \h0BC0>>, <<\h0BCD, \h0BCD>>, <<\h0C00, \h0C00>>,
    <<\h0C04, \h0C04>>, <<\h0C3C, \h0C3C>>, <<\h0C3E, \h0C40>>, <<\h0C46, \h0C48>>, <<\h0C4A, \h0C4D>>,
    <<\h0C55, \h0C56>>, <<\h0C62, \h0C63>>, <<\h0C81, \h0C81>>, <<\h0CBC, \h0CBC>>, <<\h0CBF, \h0CBF>>,
    <<\h0CC6, \h0CC6>>, <<\h0CCC, \h0CCD>>, <<\h0CE2, \h0CE3>>, <<\h0D00, \h0D01>>, <<\h0D3B, \h0D3C>>,
    <<\h0D41, \h0D44>>, <<\h0D4D, \h0D4D>>, <<\h0D62, \h0D63>>, <<\h0D81, \h0D81>>, <<\h0DCA, \h0DCA>>,
    <<\h0DD2, \h0DD4>>, <<\h0DD6, \h0DD6>>, <<\h0E31, \h0E31>>, <<\h0E34, \h0E3A>>, <<\h0E46, \h0E4E>>,
    <<\h0EB1, \h0EB1>>, <<\h0EB4, \h0EBC>>, <<\h0EC6, \h0EC6>>, <<\h0EC8, \h0ECE>>, <<\h0F18, \h0F19>>,
    <<\h0F35, \h0F35>>, <<\h0F37, \h0F37>>, <<\h0F39, \h0F39>>, <<\h0F71, \h0F7E>>, <<\h0F80, \h0F84>>,
    <<\h0F86, \h0F87>>, <<\h0F8D, \h0F97>>, <<\h0F99, \h0FBC>>, <<\h0FC6, \h0FC6>>, <<\h102D, \h1030>>,
    <<\h1032, \h1037>>, <<\h1039, \h103A>>, <<\h103D, \h103E>>, <<\h1058, \h1059>>, <<\h105E, \h1060>>,
    <<\h1071, \h1074>>, <<\h1082, \h1082>>, <<\h1085, \h1086>>, <<\h108D, \h108D>>, <<\h109D, \h109D>>,
    <<\h10FC, \h10FC>>, <<\h135D, \h135F>>, <<\h1712, \h1714>>, <<\h1732, \h1733>>, <<\h1752, \h1753>>,
    <<\h1772, \h1773>>, <<\h17B4, \h17B5>>, <<\h17B7, \h17BD>>, <<\h17C6, \h17C6>>, <<\h17C9, \h17D3>>,
    <<\h17D7, \h17D7>>, <<\h17DD, \h17DD>>, <<\h180B, \h180F>>, <<\h1843, \h1843>>, <<\h1885, \h1886>>,
    <<\h18A9, \h18A9>>, <<\h1920, \h1922>>, <<\h1927, \h1928>>, <<\h1932, \h1932>>, <<\h1939, \h193B>>,
    <<\h1A17, \h1A18>>, <<\h1A1B, \h1A1B>>, <<\h1A56, \h1A56>>, <<\h1A58, \h1A5E>>, <<\h1A60, \h1A60>>,
    <<\h1A62, \h1A62>>, <<\h1A65, \h1A6C>>, <<\h1A73, \h1A7C>>, <<\h1A7F, \h1A7F>>, <<\h1AA7, \h1AA7>>,
    <<\h1AB0, \h1ADD>>, <<\h1AE0, \h1AEB>>, <<\h1B00, \h1B03>>, <<\h1B34, \h1B34>>, <<\h1B36, \h1B3A>>,
    <<\h1B3C, \h1B3C>>, <<\h1B42, \h1B42>>, <<\h1B6B, \h1B73>>, <<\h1B80, \h1B81>>, <<\h1BA2, \h1BA5>>,
    <<\h1BA8, \h1BA9>>, <<\h1BAB, \h1BAD>>, <<\h1BE6, \h1BE6>>, <<\h1BE8, \h1BE9>>, <<\h1BED, \h1BED>>,
    <<\h1BEF, \h1BF1>>, <<\h1C2C, \h1C33>>, <<\h1C36, \h1C37>>, <<\h1C78, \h1C7D>>, <<\h1CD0, \h1CD2>>,
    <<\h1CD4, \h1CE0>>, <<\h1CE2, \h1CE8>>, <<\h1CED, \h1CED>>, <<\h1CF4, \h1CF4>>, <<\h1CF8, \h1CF9>>,
    <<\h1D2C, \h1D6A>>, <<\h1D78, \h1D78>>, <<\h1D9B, \h1DFF>>, <<\h1FBD, \h1FBD>>, <<\h1FBF, \h1FC1>>,
    <<\h1FCD, \h1FCF>>, <<\h1FDD, \h1FDF>>, <<\h1FED, \h1FEF>>, <<\h1FFD, \h1FFE>>, <<\h200B, \h200F>>,
    <<\h2018, \h2019>>, <<\h2024, \h2024>>, <<\h2027, \h2027>>, <<\h202A, \h202E>>, <<\h2060, \h2064>>,
    <<\h2066, \h206F>>, <<\h2071, \h2071>>, <<\h207F, \h207F>>, <<\h2090, \h209C>>, <<\h20D0, \h20F0>>,
    <<\h2C7C, \h2C7D>>, <<\h2CEF, \h2CF1>>, <<\h2D6F, \h2D6F>>, <<\h2D7F, \h2D7F>>, <<\h2DE0, \h2DFF>>,
    <<\h2E2F, \h2E2F>>, <<\h3005, \h3005>>, <<\h302A, \h302D>>, <<\h3031, \h3035>>, <<\h303B, \h303B>>,
    <<\h3099, \h309E>>, <<\h30FC, \h30FE>>, <<\hA015, \hA015>>, <<\hA4F8, \hA4FD>>, <<\hA60C, \hA60C>>,
    <<\hA66F, \hA672>>, <<\hA674, \hA67D>>, <<\hA67F, \hA67F>>, <<\hA69C, \hA69F>>, <<\hA6F0, \hA6F1>>,
    <<\hA700, \hA721>>, <<\hA770, \hA770>>, <<\hA788, \hA78A>>, <<\hA7F1, \hA7F4>>, <<\hA7F8, \hA7F9>>,
    <<\hA802, \hA802>>, <<\hA806, \hA806>>, <<\hA80B, \hA80B>>, <<\hA825, \hA826>>, <<\hA82C, \hA82C>>,
    <<\hA8C4, \hA8C5>>, <<\hA8E0, \hA8F1>>, <<\hA8FF, \hA8FF>>, <<\hA926, \hA92D>>, <<\hA947, \hA951>>,
    <<\hA980, \hA982>>, <<\hA9B3, \hA9B3>>, <<\hA9B6, \hA9B9>>, <<\hA9BC, \hA9BD>>, <<\hA9CF, \hA9CF>>,
    <<\hA9E5, \hA9E6>>, <<\hAA29, \hAA2E>>, <<\hAA31, \hAA32>>, <<\hAA35, \hAA36>>, <<\hAA43, \hAA43>>,
    <<\hAA4C, \hAA4C>>, <<\hAA70, \hAA70>>, <<\hAA7C, \hAA7C>>, <<\hAAB0, \hAAB0>>, <<\hAAB2, \hAAB4>>,
    <<\hAAB7, \hAAB8>>, <<\hAABE, \hAABF>>, <<\hAAC1, \hAAC1>>, <<\hAADD, \hAADD>>, <<\hAAEC, \hAAED>>,
    <<\hAAF3, \hAAF4>>, <<\hAAF6, \hAAF6>>, <<\hAB5B, \hAB5F>>, <<\hAB69, \hAB6B>>, <<\hABE5, \hABE5>>,
    <<\hABE8, \hABE8>>, <<\hABED, \hABED>>, <<\hFB1E, \hFB1E>>, <<\hFBB2, \hFBC2>>, <<\hFE00, \hFE0F>>,
    <<\hFE13, \hFE13>>, <<\hFE20, \hFE2F>>, <<\hFE52, \hFE52>>, <<\hFE55, \hFE55>>, <<\hFEFF, \hFEFF>>,
    <<\hFF07, \hFF07>>, <<\hFF0E, \hFF0E>>, <<\hFF1A, \hFF1A>>, <<\hFF3E, \hFF3E>>, <<\hFF40, \hFF40>>,
    <<\hFF70, \hFF70>>, <<\hFF9E, \hFF9F>>, <<\hFFE3, \hFFE3>>, <<\hFFF9, \hFFFB>>, <<\h101FD, \h101FD>>,
    <<\h102E0, \h102E0>>, <<\h10376, \h1037A>>, <<\h10780, \h10785>>, <<\h10787, \h107B0>>, <<\h107B2, \h107BA>>,
    <<\h10A01, \h10A03>>, <<\h10A05, \h10A06>>, <<\h10A0C, \h10A0F>>, <<\h10A38, \h10A3A>>, <<\h10A3F, \h10A3F>>,
    <<\h10AE5, \h10AE6>>, <<\h10D24, \h10D27>>, <<\h10D4E, \h10D4E>>, <<\h10D69, \h10D6D>>, <<\h10D6F, \h10D6F>>,
    <<\h10EAB, \h10EAC>>, <<\h10EC5, \h10EC5>>, <<\h10EFA, \h10EFF>>, <<\h10F46, \h10F50>>, <<\h10F82, \h10F85>>,
    <<\h11001, \h11001>>, <<\h11038, \h11046>>, <<\h11070, \h11070>>, <<\h11073, \h11074>>, <<\h1107F, \h11081>>,
    <<\h110B3, \h110B6>>, <<\h110B9, \h110BA>>, <<\h110BD, \h110BD>>, <<\h110C2, \h110C2>>, <<\h110CD, \h110CD>>,
    <<\h11100, \h11102>>, <<\h11127, \h1112B>>, <<\h1112D, \h11134>>, <<\h11173, \h11173>>, <<\h11180, \h11181>>,
    <<\h111B6, \h111BE>>, <<\h111C9, \h111CC>>, <<\h111CF, \h111CF>>, <<\h1122F, \h11231>>, <<\h11234, \h11234>>,
    <<\h11236, \h11237>>, <<\h1123E, \h1123E>>, <<\h11241, \h11241>>, <<\h112DF, \h112DF>>, <<\h112E3, \h112EA>>,
    <<\h11300, \h11301>>, <<\h1133B, \h1133C>>, <<\h11340, \h11340>>, <<\h11366, \h1136C>>, <<\h11370, \h11374>>,
    <<\h113BB, \h113C0>>, <<\h113CE, \h113CE>>, <<\h113D0, \h113D0>>, <<\h113D2, \h113D2>>, <<\h113E1, \h113E2>>,
    <<\h11438, \h1143F>>, <<\h11442, \h11444>>, <<\h11446, \h11446>>, <<\h1145E, \h1145E>>, <<\h114B3, \h114B8>>,
    <<\h114BA, \h114BA>>, <<\h114BF, \h114C0>>, <<\h114C2, \h114C3>>, <<\h115B2, \h115B5>>, <<\h115BC, \h115BD>>,
    <<\h115BF, \h115C0>>, <<\h115DC, \h115DD>>, <<\h11633, \h1163A>>, <<\h1163D, \h1163D>>, <<\h1163F, \h11640>>,
    <<\h116AB, \h116AB>>, <<\h116AD, \h116AD>>, <<\h116B0, \h116B5>>, <<\h116B7, \h116B7>>, <<\h1171D, \h1171D>>, <<\h1171F, \h1171F>>,
    <<\h11722, \h11725>>, <<\h11727, \h1172B>>, <<\h1182F, \h11837>>, <<\h11839, \h1183A>>, <<\h1193B, \h1193C>>,
    <<\h1193E, \h1193E>>, <<\h11943, \h11943>>, <<\h119D4, \h119D7>>, <<\h119DA, \h119DB>>, <<\h119E0, \h119E0>>,
    <<\h11A01, \h11A0A>>, <<\h11A33, \h11A38>>, <<\h11A3B, \h11A3E>>, <<\h11A47, \h11A47>>, <<\h11A51, \h11A56>>,
    <<\h11A59, \h11A5B>>, <<\h11A8A, \h11A96>>, <<\h11A98, \h11A99>>, <<\h11B60, \h11B60>>, <<\h11B62, \h11B64>>,
    <<\h11B66, \h11B66>>, <<\h11C30, \h11C36>>, <<\h11C38, \h11C3D>>, <<\h11C3F, \h11C3F>>, <<\h11C92, \h11CA7>>,
    <<\h11CAA, \h11CB0>>, <<\h11CB2, \h11CB3>>, <<\h11CB5, \h11CB6>>, <<\h11D31, \h11D36>>, <<\h11D3A, \h11D3A>>,
    <<\h11D3C, \h11D3D>>, <<\h11D3F, \h11D45>>, <<\h11D47, \h11D47>>, <<\h11D90, \h11D91>>, <<\h11D95, \h11D95>>,
    <<\h11D97, \h11D97>>, <<\h11DD9, \h11DD9>>, <<\h11EF3, \h11EF4>>, <<\h11F00, \h11F01>>, <<\h11F36, \h11F3A>>,
    <<\h11F40, \h11F40>>, <<\h11F42, \h11F42>>, <<\h11F5A, \h11F5A>>, <<\h13430, \h13440>>, <<\h13447, \h13455>>,
    <<\h1611E, \h16129>>, <<\h1612D, \h1612F>>, <<\h16AF0, \h16AF4>>, <<\h16B30, \h16B36>>, <<\h16B40, \h16B43>>,
    <<\h16D40, \h16D42>>, <<\h16D6B, \h16D6C>>, <<\h16F4F, \h16F4F>>, <<\h16F8F, \h16F9F>>, <<\h16FE0, \h16FE1>>,
    <<\h16FE3, \h16FE4>>, <<\h16FF2, \h16FF3>>, <<\h1AFF0, \h1AFF3>>, <<\h1AFF5, \h1AFFB>>, <<\h1AFFD, \h1AFFE>>,
    <<\h1BC9D, \h1BC9E>>, <<\h1BCA0, \h1BCA3>>, <<\h1CF00, \h1CF2D>>, <<\h1CF30, \h1CF46>>, <<\h1D167, \h1D169>>,
    <<\h1D173, \h1D182>>, <<\h1D185, \h1D18B>>, <<\h1D1AA, \h1D1AD>>, <<\h1D242, \h1D244>>, <<\h1DA00, \h1DA36>>,
    <<\h1DA3B, \h1DA6C>>, <<\h1DA75, \h1DA75>>, <<\h1DA84, \h1DA84>>, <<\h1DA9B, \h1DA9F>>, <<\h1DAA1, \h1DAAF>>,
    <<\h1E000, \h1E006>>, <<\h1E008, \h1E018>>, <<\h1E01B, \h1E021>>, <<\h1E023, \h1E024>>, <<\h1E026, \h1E02A>>,
    <<\h1E030, \h1E06D>>, <<\h1E08F, \h1E08F>>, <<\h1E130, \h1E13D>>, <<\h1E2AE, \h1E2AE>>, <<\h1E2EC, \h1E2EF>>,
    <<\h1E4EB, \h1E4EF>>, <<\h1E5EE, \h1E5EF>>, <<\h1E6E3, \h1E6E3>>, <<\h1E6E6, \h1E6E6>>, <<\h1E6EE, \h1E6EF>>,
    <<\h1E6F5, \h1E6F5>>, <<\h1E6FF, \h1E6FF>>, <<\h1E8D0, \h1E8D6>>, <<\h1E944, \h1E94B>>, <<\h1F3FB, \h1F3FF>>,
    <<\hE0001, \hE0001>>, <<\hE0020, \hE007F>>, <<\hE0100, \hE01EF>> >>

\* The code points above ASCII with the property Cased (Unicode 17.0) that
\* are not Case_Ignorable, as <<first, last>>
CasedRanges == <<
    <<\h00AA, \h00AA>>, <<\h00B5, \h00B5>>, <<\h00BA, \h00BA>>, <<\h00C0, \h00D6>>, <<\h00D8, \h00F6>>,
    <<\h00F8, \h01BA>>, <<\h01BC, \h01BF>>, <<\h01C4, \h0293>>, <<\h0296, \h02AF>>, <<\h0370, \h0373>>,
    <<\h0376, \h0377>>, <<\h037B, \h037D>>, <<\h037F, \h037F>>, <<\h0386, \h0386>>, <<\h0388, \h038A>>,
    <<\h038C, \h038C>>, <<\h038E, \h03A1>>, <<\h03A3, \h03F5>>, <<\h03F7, \h0481>>, <<\h048A, \h052F>>,
    <<\h0531, \h0556>>, <<\h0560, \h0588>>, <<\h10A0, \h10C5>>, <<\h10C7, \h10C7>>, <<\h10CD, \h10CD>>,
    <<\h10D0, \h10FA>>, <<\h10FD, \h10FF>>, <<\h13A0, \h13F5>>, <<\h13F8, \h13FD>>, <<\h1C80, \h1C8A>>,
    <<\h1C90, \h1CBA>>, <<\h1CBD, \h1CBF>>, <<\h1D00, \h1D2B>>, <<\h1D6B, \h1D77>>, <<\h1D79, \h1D9A>>,
    <<\h1E00, \h1F15>>, <<\h1F18, \h1F1D>>, <<\h1F20, \h1F45>>, <<\h1F48, \h1F4D>>, <<\h1F50, \h1F57>>,
    <<\h1F59, \h1F59>>, <<\h1F5B, \h1F5B>>, <<\h1F5D, \h1F5D>>, <<\h1F5F, \h1F7D>>, <<\h1F80, \h1FB4>>,
    <<\h1FB6, \h1FBC>>, <<\h1FBE, \h1FBE>>, <<\h1FC2, \h1FC4>>, <<\h1FC6, \h1FCC>>, <<\h1FD0, \h1FD3>>,
    <<\h1FD6, \h1FDB>>, <<\h1FE0, \h1FEC>>, <<\h1FF2, \h1FF4>>, <<\h1FF6, \h1FFC>>, <<\h2102, \h2102>>,
    <<\h2107, \h2107>>, <<\h210A, \h2113>>, <<\h2115, \h2115>>, <<\h2119, \h211D>>, <<\h2124, \h2124>>,
    <<\h2126, \h2126>>, <<\h2128, \h2128>>, <<\h212A, \h212D>>, <<\h212F, \h2134>>, <<\h2139, \h2139>>,
    <<\h213C, \h213F>>, <<\h2145, \h2149>>, <<\h214E, \h214E>>, <<\h2160, \h217F>>, <<\h2183, \h2184>>,
    <<\h24B6, \h24E9>>, <<\h2C00, \h2C7B>>, <<\h2C7E, \h2CE4>>, <<\h2CEB, \h2CEE>>, <<\h2CF2, \h2CF3>>,
    <<\h2D00, \h2D25>>, <<\h2D27, \h2D27>>, <<\h2D2D, \h2D2D>>, <<\hA640, \hA66D>>, <<\hA680, \hA69B>>,
    <<\hA722, \hA76F>>, <<\hA771, \hA787>>, <<\hA78B, \hA78E>>, <<\hA790, \hA7DC>>, <<\hA7F5, \hA7F6>>,
    <<\hA7FA, \hA7FA>>, <<\hAB30, \hAB5A>>, <<\hAB60, \hAB68>>, <<\hAB70, \hABBF>>, <<\hFB00, \hFB06>>,
    <<\hFB13, \hFB17>>, <<\hFF21, \hFF3A>>, <<\hFF41, \hFF5A>>, <<\h10400, \h1044F>>, <<\h104B0, \h104D3>>,
    <<\h104D8, \h104FB>>, <<\h10570, \h1057A>>, <<\h1057C, \h1058A>>, <<\h1058C, \h10592>>, <<\h10594, \h10595>>,
    <<\h10597, \h105A1>>, <<\h105A3, \h105B1>>, <<\h105B3, \h105B9>>, <<\h105BB, \h105BC>>, <<\h10C80, \h10CB2>>,
    <<\h10CC0, \h10CF2>>, <<\h10D50, \h10D65>>, <<\h10D70, \h10D85>>, <<\h118A0, \h118DF>>, <<\h16E40, \h16E7F>>,
    <<\h16EA0, \h16EB8>>, <<\h16EBB, \h16ED3>>, <<\h1D400, \h1D454>>, <<\h1D456, \h1D49C>>, <<\h1D49E, \h1D49F>>,
    <<\h1D4A2, \h1D4A2>>, <<\h1D4A5, \h1D4A6>>, <<\h1D4A9, \h1D4AC>>, <<\h1D4AE, \h1D4B9>>, <<\h1D4BB, \h1D4BB>>,
    <<\h1D4BD, \h1D4C3>>, <<\h1D4C5, \h1D505>>, <<\h1D507, \h1D50A>>, <<\h1D50D, \h1D514>>, <<\h1D516, \h1D51C>>,
    <<\h1D51E, \h1D539>>, <<\h1D53B, \h1D53E>>, <<\h1D540, \h1D544>>, <<\h1D546, \h1D546>>, <<\h1D54A, \h1D550>>,
    <<\h1D552, \h1D6A5>>, <<\h1D6A8, \h1D6C0>>, <<\h1D6C2, \h1D6DA>>, <<\h1D6DC, \h1D6FA>>, <<\h1D6FC, \h1D714>>,
    <<\h1D716, \h1D734>>, <<\h1D736, \h1D74E>>, <<\h1D750, \h1D76E>>, <<\h1D770, \h1D788>>, <<\h1D78A, \h1D7A8>>,
    <<\h1D7AA, \h1D7C2>>, <<\h1D7C4, \h1D7CB>>, <<\h1DF00, \h1DF09>>, <<\h1DF0B, \h1DF1E>>, <<\h1DF25, \h1DF2A>>,
    <<\h1E900, \h1E943>>, <<\h1F130, \h1F149>>, <<\h1F150, \h1F169>>, <<\h1F170, \h1F189>> >>

CodeUnitsIn(ranges) ==
    UNION { {CodeUnits(cp) : cp \in ranges[i][1]..ranges[i][2]} : i \in 1..Len(ranges) }

CaseIgnorable ==
    CodeUnitsIn(CaseIgnorableRanges) \cup {<<"'">>, <<".">>, <<":">>, <<"^">>, <<"U+0060">>}

Cased ==
    CodeUnitsIn(CasedRanges)
       \cup {<<UpperChars[i]>> : i \in 1..Len(UpperChars)}
       \cup {<<LowerChars[i]>> : i \in 1..Len(LowerChars)}

\* the mapping of one entry of LowercaseMappings, on code units
MappingOf(m) ==
    LET cps == {cp \in m[1]..m[2] : (cp - m[1]) % m[3] = 0}
    IN  [u \in {CodeUnits(cp) : cp \in cps} |->
            CodeUnits((CHOOSE cp \in cps : CodeUnits(cp) = u) + m[4])]

\* the lower case of the ASCII letters and of the three characters named above
BasicMappings ==
    [u \in {<<UpperChars[k]>> : k \in 1..Len(UpperChars)} |->
        << LowerChars[CHOOSE k \in 1..Len(UpperChars) : UpperChars[k] = u[1]] >>]
      @@ (<<C_IDot>> :> <<"i", C_DotAbove>>)
      @@ (<<C_Kelvin>> :> <<"k">>)
      @@ (<<C_Sigma>> :> <<C_SmallSigma>>)

\* the mappings of the entries first..last of LowercaseMappings
RECURSIVE MappingsIn(_, _)
MappingsIn(first, last) ==
    IF first = last THEN MappingOf(LowercaseMappings[first])
    ELSE LET mid == (first + last) \div 2
         IN  MappingsIn(first, mid) @@ MappingsIn(mid + 1, last)

\* the lower case of every character that has one, out of context
LowerMap == BasicMappings @@ MappingsIn(1, Len(LowercaseMappings))

\* the characters that have a lower case of their own
HasLowerCase == DOMAIN LowerMap

\* the lower case of one code unit on its own
LowerOf(c) == IF <<c>> \in HasLowerCase THEN LowerMap[<<c>>] ELSE <<c>>

\* the code points of s, each as its code units: a high surrogate followed
\* by a low surrogate is one code point
RECURSIVE CodePoints(_)
CodePoints(s) ==
    IF s = << >> THEN << >>
    ELSE IF Len(s) >= 2 /\ s[1] \in HighSurrogates /\ s[2] \in LowSurrogates
    THEN << SubSeq(s, 1, 2) >> \o CodePoints(SubSeq(s, 3, Len(s)))
    ELSE << << s[1] >> >> \o CodePoints(Tail(s))

\* the condition Final_Sigma at position i: the nearest character before i
\* that is not case-ignorable is cased, and the nearest one after i is not
FinalSigma(cps, i) ==
    LET before == {j \in 1..(i - 1) : cps[j] \notin CaseIgnorable}
        after == {j \in (i + 1)..Len(cps) : cps[j] \notin CaseIgnorable}
    IN  /\ before # {}
        /\ cps[CHOOSE j \in before : \A k \in before : k <= j] \in Cased
        /\ \/ after = {}
           \/ cps[CHOOSE j \in after : \A k \in after : j <= k] \notin Cased

LowerAt(cps, i) ==
    IF cps[i] = <<C_Sigma>> /\ FinalSigma(cps, i) THEN <<C_FinalSigma>>
    ELSE IF cps[i] \in HasLowerCase THEN LowerMap[cps[i]]
    ELSE cps[i]

\* small ASCII letters, digits and a few marks: each its own lower case,
\* and none of them part of a surrogate pair
OwnLowerCase ==
    {LowerChars[i] : i \in 1..Len(LowerChars)} \cup {HexDigits[i] : i \in 1..10}
       \cup {".", " ", "-", "_"}

RECURSIVE LowerFrom(_, _)
LowerFrom(cps, i) ==
    IF i > Len(cps) THEN << >> ELSE LowerAt(cps, i) \o LowerFrom(cps, i + 1)

\* String.prototype.toLowerCase
ToLowerCase(s) ==
    IF \A i \in 1..Len(s) : s[i] \in OwnLowerCase THEN s
    ELSE LowerFrom(CodePoints(s), 1)

\* String.prototype.lastIndexOf for a one-character needle: 0-based, -1 if none
LastIndexOf(s, c) ==
    IF \E i \in 1..Len(s) : s[i] = c
    THEN (CHOOSE i \in 1..Len(s) : s[i] = c /\ \A j \in (i+1)..Len(s) : s[j] # c) - 1
    ELSE -1

Min(a, b) == IF a < b THEN a ELSE b
Max(a, b) == IF a > b THEN a ELSE b
Clamp(n, len) == Min(Max(n, 0), len)

\* String.prototype.substring(start): a negative start counts as 0
SubstringFrom(s, start) == SubSeq(s, Clamp(start, Len(s)) + 1, Len(s))

\* String.prototype.substring(start, end): both clamped to 0..length, swapped
\* when start > end
Substring(s, start, end) ==
    LET a == Clamp(start, Len(s))
        b == Clamp(end, Len(s))
    IN  SubSeq(s, Min(a, b) + 1, Max(a, b))

\* the WhiteSpace and LineTerminator code points: TAB, LF, VT, FF, CR, SP,
\* NBSP, the other space separators, LS, PS and ZWNBSP
WhiteSpace ==
    {" ", "\t", "\n", "\r", "\f", "U+000B", "U+00A0", "U+1680",
     "U+2000", "U+2001", "U+2002", "U+2003", "U+2004", "U+2005", "U+2006",
     "U+2007", "U+2008", "U+2009", "U+200A", "U+2028", "U+2029", "U+202F",
     "U+205F", "U+3000", "U+FEFF"}

RECURSIVE TrimStart(_)
TrimStart(s) ==
    IF s # << >> /\ Head(s) \in WhiteSpace THEN TrimStart(Tail(s)) ELSE s

RECURSIVE TrimEnd(_)
TrimEnd(s) ==
    IF s # << >> /\ s[Len(s)] \in WhiteSpace
    THEN TrimEnd(SubSeq(s, 1, Len(s) - 1))
    ELSE s

\* String.prototype.trim
Trim(s) == TrimEnd(TrimStart(s))

\* x || '' for an optional string
OrEmpty(x) == IF x = Absent THEN << >> ELSE x
\* x || 0 for an optional number
OrZero(n) == IF n = NoNumber THEN 0 ELSE n[1]

(***************************************************************************)
(* utilities.ts                                                            *)
(***************************************************************************)
\* faulty variant: the extension is compared as written
FileExtensionAsWritten(filename) ==
    SubstringFrom(filename, LastIndexOf(filename, "."))

FileExtension(filename) ==
    SubstringFrom(ToLowerCase(filename), LastIndexOf(filename, "."))

isImageFile(filename) == FileExtension(filename) \in imageExtensions

isVideoFile(filename) == FileExtension(filename) \in videoExtensions

(***************************************************************************)
(* BoxLoader.getRepresentationTypeForFilename                              *)
(***************************************************************************)
\* faulty variant: the extension is looked up as written
getRepresentationTypeAsWritten(fileName) ==
    LET name == OrEmpty(fileName)
        dotIndex == LastIndexOf(name, ".")
        ext == IF dotIndex >= 0 THEN SubstringFrom(name, dotIndex) ELSE << >>
    IN  IF ext \in markdownExts THEN S_markdown ELSE S_extracted_text

getRepresentationTypeForFilename(fileName) ==
    LET lower == ToLowerCase(OrEmpty(fileName))
        dotIndex == LastIndexOf(lower, ".")
        ext == IF dotIndex >= 0 THEN SubstringFrom(lower, dotIndex) ELSE << >>
    IN  IF ext \in markdownExts THEN S_markdown ELSE S_extracted_text

\* Decimal digits of a natural number, as `${n}` renders it
DigitChars == <<"0","1","2","3","4","5","6","7","8","9">>

RECURSIVE NatToString(_)
NatToString(n) ==
    IF n < 10 THEN << DigitChars[n + 1] >>
    ELSE NatToString(n \div 10) \o << DigitChars[(n % 10) + 1] >>

\* Whether needle occurs in s at 1-based position i
OccursAt(s, needle, i) ==
    /\ i + Len(needle) - 1 <= Len(s)
    /\ \A k \in 1..Len(needle) : s[i + k - 1] = needle[k]

\* String.prototype.replace(needle, repl) with a string needle: the first
\* occurrence only
ReplaceFirst(s, needle, repl) ==
    IF \E i \in 1..Len(s) : OccursAt(s, needle, i)
    THEN LET i == CHOOSE i \in 1..Len(s) :
                    /\ OccursAt(s, needle, i)
                    /\ \A j \in 1..(i - 1) : ~OccursAt(s, needle, j)
         IN  SubSeq(s, 1, i - 1) \o repl \o SubSeq(s, i + Len(needle), Len(s))
    ELSE s

(***************************************************************************)
(* The remote service: files, folders and the answers it may give.         *)
(***************************************************************************)
F11 == <<"1", "1">>
F12 == <<"1", "2">>
F13 == <<"1", "3">>
F14 == <<"1", "4">>
F15 == <<"1", "5">>
F16 == <<"1", "6">>
F17 == <<"1", "7">>

\* the name of F17: capital I with dot above (U+0130), then '.png'
N_IDot_png == <<C_IDot, ".", "p", "n", "g">>

D_Created == <<"2", "0", "2", "4">>
D_Modified == <<"2", "0", "2", "5">>

\* What files.getFileById(id) answers for each file of the service: the
\* FileFull fields the loader reads.
FileInfoOf(id) ==
    CASE id = F11 -> [name |-> N_a_txt, extension |-> <<"t", "x", "t">>, size |-> <<5>>,
                      createdAt |-> D_Created, modifiedAt |-> D_Modified]
      [] id = F12 -> [name |-> N_B_PNG, extension |-> <<"P", "N", "G">>, size |-> <<7>>,
                      createdAt |-> D_Created, modifiedAt |-> D_Modified]
      [] id = F13 -> [name |-> N_c_pdf, extension |-> <<"p", "d", "f">>, size |-> <<0>>,
                      createdAt |-> D_Created, modifiedAt |-> Absent]
      [] id = F15 -> [name |-> N_d_Mp4, extension |-> <<"M", "p", "4">>, size |-> <<9>>,
                      createdAt |-> D_Created, modifiedAt |-> D_Modified]
      [] id = F16 -> [name |-> N_png, extension |-> Absent, size |-> <<3>>,
                      createdAt |-> Absent, modifiedAt |-> D_Modified]
      [] id = F17 -> [name |-> N_IDot_png, extension |-> <<"p", "n", "g">>, size |-> <<4>>,
                      createdAt |-> D_Created, modifiedAt |-> D_Modified]
      [] OTHER    -> [name |-> Absent, extension |-> Absent, size |-> NoNumber,
                      createdAt |-> Absent, modifiedAt |-> Absent]

(***************************************************************************)
(* The placeholder strings the loader puts in a Document's content.        *)
(***************************************************************************)
ErrorReadingFile(fileName) == S_ErrorReadingFile \o fileName \o S_Close

NoRepresentationsList(fileName) == S_ErrorNoRepsAvailableFor \o fileName \o S_Close

NoRepresentation(repType, fileName) ==
    S_ErrorNo \o repType \o S_RepAvailableFor \o fileName \o S_Close

StillProcessing(repType, fileName) ==
    S_Info \o repType \o S_StillProcessingFor \o fileName \o S_Close

ExtractionFailed(repType, fileName) ==
    S_Error \o repType \o S_ExtractionFailedFor \o fileName \o S_Close

UnknownState(repType, fileName) ==
    S_ErrorUnknown \o repType \o S_RepStateFor \o fileName \o S_Close

NoRepresentationUrl(repType, fileName) ==
    S_ErrorNo \o repType \o S_RepUrlAvailableFor \o fileName \o S_Close

FailedToGetUrl(repType, fileName, status) ==
    S_ErrorFailedToGet \o repType \o S_RepUrlFor \o fileName \o S_Status
        \o NatToString(status) \o S_Close

InvalidDataFormat(fileName) == S_ErrorInvalidFormatFor \o fileName \o S_Close

FailedToFetch(repType, fileName, status) ==
    S_ErrorFailedToFetch \o repType \o S_ContentFor \o fileName \o S_Status
        \o NatToString(status) \o S_Close

NetworkError(repType, fileName) ==
    S_ErrorNetwork \o repType \o S_RepFor \o fileName \o S_Close

(***************************************************************************)
(* Document assembly (loadFileById, after the retrieval).                  *)
(***************************************************************************)
\* faulty variant: the cut keeps one character less
ApplyCharacterLimitShort(content, limit) ==
    IF limit # NoNumber /\ limit[1] # 0 /\ Len(content) > limit[1]
    THEN Substring(content, 0, limit[1] - 1)
    ELSE content

\* if (this.characterLimit && content.length > this.characterLimit)
\*   content = content.substring(0, this.characterLimit)
ApplyCharacterLimit(content, limit) ==
    IF limit # NoNumber /\ limit[1] # 0 /\ Len(content) > limit[1]
    THEN Substring(content, 0, limit[1])
    ELSE content

\* faulty variant: the Document's file_id is the id the service reports
MakeDocumentReportedId(fileId, fileInfo, content) ==
    [ pageContent |-> content,
      metadata |->
        [ source      |-> S_BoxFile \o fileId,
          file_id     |-> OrEmpty(fileInfo.name),
          file_name   |-> OrEmpty(fileInfo.name),
          file_type   |-> OrEmpty(fileInfo.extension),
          file_size   |-> OrZero(fileInfo.size),
          created_at  |-> OrEmpty(fileInfo.createdAt),
          modified_at |-> OrEmpty(fileInfo.modifiedAt),
          box_url     |-> S_BoxUrl \o fileId ] ]

MakeDocument(fileId, fileInfo, content) ==
    [ pageContent |-> content,
      metadata |->
        [ source      |-> S_BoxFile \o fileId,
          file_id     |-> fileId,
          file_name   |-> OrEmpty(fileInfo.name),
          file_type   |-> OrEmpty(fileInfo.extension),
          file_size   |-> OrZero(fileInfo.size),
          created_at  |-> OrEmpty(fileInfo.createdAt),
          modified_at |-> OrEmpty(fileInfo.modifiedAt),
          box_url     |-> S_BoxUrl \o fileId ] ]

\* loadFileById returned null
NoDocument == [ pageContent |-> Absent ]

(***************************************************************************)
(* Program constants.                                                      *)
(***************************************************************************)
maxRetries == 3
PollDelayMs == 1500
maxEmptyRetries == 2
EmptyDelayMs == 1000
limit == 100

(***************************************************************************)
(* Bounds of the model.                                                    *)
(***************************************************************************)
\* longest boxFileIds list tried
MaxIds == 3
\* largest flat folder tried is PagedBase + MaxExtra entries
MaxExtra == 1

(***************************************************************************)
(* Representation listing: the entries and the readiness test.             *)
(***************************************************************************)
NoState == "undefined"
RepStates == {NoState, "success", "viewable", "pending", "processing",
              "none", "error", "failed", "archived"}

U_Info == <<"i", "n", "f", "o">>
U_Template == <<"d", "l", "/", "{", "+", "a", "s", "s", "e", "t", "_", "p", "a", "t", "h", "}">>

NoEntry == [representation |-> Absent, state |-> NoState, infoUrl |-> Absent]

\* entries.find(rep => rep.representation === repType); NoEntry for undefined
FindRepresentation(entries, repType) ==
    IF \E i \in 1..Len(entries) : entries[i].representation = repType
    THEN entries[CHOOSE i \in 1..Len(entries) :
                    /\ entries[i].representation = repType
                    /\ \A j \in 1..(i - 1) : entries[j].representation # repType]
    ELSE NoEntry

\* a string used as a condition: undefined and '' are falsy
Truthy(s) == s # Absent /\ s # << >>

\* faulty variant: 'viewable' is not taken as ready
IsReadyNoViewable(workingRep) ==
    \/ workingRep.state = NoState /\ Truthy(workingRep.infoUrl)
    \/ workingRep.state = "success"

\* (!state && !!workingRep.info?.url) || state === 'success' || state === 'viewable'
IsReady(workingRep) ==
    \/ workingRep.state = NoState /\ Truthy(workingRep.infoUrl)
    \/ workingRep.state = "success"
    \/ workingRep.state = "viewable"

\* faulty variant: the state 'none' is not told from an unknown one
ResolveResultNoneUnknown(workingRep, isReady, repType, fileName) ==
    IF isReady /\ Truthy(workingRep.infoUrl)
        THEN [ready |-> TRUE, content |-> Absent]
    ELSE IF workingRep.state \in {"pending", "processing"}
        THEN [ready |-> FALSE, content |-> StillProcessing(repType, fileName)]
    ELSE IF workingRep.state = "none"
        THEN [ready |-> FALSE, content |-> UnknownState(repType, fileName)]
    ELSE IF workingRep.state \in {"error", "failed"}
        THEN [ready |-> FALSE, content |-> ExtractionFailed(repType, fileName)]
    ELSE [ready |-> FALSE, content |-> UnknownState(repType, fileName)]

\* The tail of getReadyRepresentation, from "if (isReady && workingRep.info?.url)"
ResolveResult(workingRep, isReady, repType, fileName) ==
    IF isReady /\ Truthy(workingRep.infoUrl)
        THEN [ready |-> TRUE, content |-> Absent]
    ELSE IF workingRep.state \in {"pending", "processing"}
        THEN [ready |-> FALSE, content |-> StillProcessing(repType, fileName)]
    ELSE IF workingRep.state = "none"
        THEN [ready |-> FALSE, content |-> NoRepresentation(repType, fileName)]
    ELSE IF workingRep.state \in {"error", "failed"}
        THEN [ready |-> FALSE, content |-> ExtractionFailed(repType, fileName)]
    ELSE [ready |-> FALSE, content |-> UnknownState(repType, fileName)]

(***************************************************************************)
(* The answers of the remote service.  svc names how much of its behaviour *)
(* a run explores: "full" every answer to every per-file call, "basic" one *)
(* answer of each kind, "gone" a service whose files have all been removed *)
(* (every metadata lookup fails).  "steady" is a service that answers every *)
(* request the same way each time, with success; "steady_p2" does so too,   *)
(* but fails every folder page request after a folder's first page;         *)
(* "steady_pending" lists every representation as pending, each time, and   *)
(* "steady_blank" serves blank content, each time.                          *)
(***************************************************************************)
Steady(s) == s \in {"steady", "steady_p2", "steady_pending", "steady_blank"}

OtherKind(repType) == IF repType = S_markdown THEN S_extracted_text ELSE S_markdown

\* the entries of one kind the service may list: every state with an info
\* URL, and the states whose readiness depends on it also without one
RepEntries(repType, states) ==
    [representation : {repType}, state : states, infoUrl : {U_Info}]
    \cup [representation : {repType}, state : states \cap {NoState, "success", "pending"},
          infoUrl : {Absent}]

ReadyEntry(repType) == [representation |-> repType, state |-> "success", infoUrl |-> U_Info]

TokenResponses(s) == IF s = "gone" \/ Steady(s) THEN {"ok"} ELSE {"ok", "throw"}

MetaResponses(s) ==
    IF Steady(s) THEN {"ok"} ELSE IF s = "gone" THEN {"throw"} ELSE {"ok", "throw"}

ListResponses(s, repType) ==
    IF s = "steady_pending" THEN
        {[kind |-> "ok", entries |-> << [representation |-> repType, state |-> "pending",
                                         infoUrl |-> U_Info] >>]}
    ELSE IF Steady(s) THEN {[kind |-> "ok", entries |-> << ReadyEntry(repType) >>]}
    ELSE IF s = "full" THEN
        {[kind |-> "throw", entries |-> << >>], [kind |-> "noreps", entries |-> << >>],
         [kind |-> "ok", entries |-> << >>],
         [kind |-> "ok", entries |-> << ReadyEntry(OtherKind(repType)) >>]}
        \cup {[kind |-> "ok", entries |-> << e >>] : e \in RepEntries(repType, RepStates)}
        \cup {[kind |-> "ok", entries |-> << ReadyEntry(OtherKind(repType)), e >>] :
                e \in RepEntries(repType, {"success", "pending"})}
    ELSE
        {[kind |-> "throw", entries |-> << >>],
         [kind |-> "ok", entries |-> << ReadyEntry(repType) >>]}

\* fetch(infoUrl): a network error, or a status and a body; the body cannot
\* be read ("unreadable"), is no JSON ("text"), or is JSON whose
\* content.url_template is the given optional string
InfoResponses(s) ==
    IF Steady(s) THEN
        {[kind |-> "ok", status |-> 200, body |-> "json", template |-> U_Template]}
    ELSE IF s = "full" THEN
        {[kind |-> "throw", status |-> 0, body |-> "text", template |-> Absent]}
        \cup [kind : {"ok"}, status : {404, 202}, body : {"text"}, template : {Absent}]
        \cup [kind : {"ok"}, status : {200}, body : {"unreadable", "text"},
              template : {Absent}]
        \cup [kind : {"ok"}, status : {200}, body : {"json"},
              template : {Absent, << >>, U_Template, S_AssetPath}]
    ELSE
        {[kind |-> "throw", status |-> 0, body |-> "text", template |-> Absent],
         [kind |-> "ok", status |-> 404, body |-> "text", template |-> Absent],
         [kind |-> "ok", status |-> 200, body |-> "json", template |-> U_Template]}

\* what "await fetch(infoUrl)" settles with: a rejection, or a Response of
\* some status
InfoAnswers(s) == {[kind |-> r.kind, status |-> r.status] : r \in InfoResponses(s)}

\* what "await response.text()" settles with for a Response of status 200
InfoBodies(s) ==
    {[body |-> r.body, template |-> r.template] :
        r \in {q \in InfoResponses(s) : q.kind = "ok" /\ q.status = 200}}

Texts == {T_Empty, T_Blank, T_Hi, T_HelloWorld}

\* Response.ok
ResponseOk(status) == status >= 200 /\ status <= 299

\* fetch(representationUrl): a network error, or a status and a text body;
\* the body is read ("ok") or its reading fails ("throw")
ContentResponses(s) ==
    IF s = "steady_blank" THEN
        {[kind |-> "ok", status |-> 200, read |-> "ok", text |-> T_Blank]}
    ELSE IF Steady(s) THEN
        {[kind |-> "ok", status |-> 200, read |-> "ok", text |-> T_HelloWorld]}
    ELSE IF s = "full" THEN
        {[kind |-> "throw", status |-> 0, read |-> "ok", text |-> T_Empty]}
        \cup [kind : {"ok"}, status : {404, 500}, read : {"ok"}, text : {T_Hi}]
        \cup [kind : {"ok"}, status : {200}, read : {"ok"}, text : Texts]
        \cup {[kind |-> "ok", status |-> 200, read |-> "throw", text |-> T_Empty]}
    ELSE
        {[kind |-> "throw", status |-> 0, read |-> "ok", text |-> T_Empty],
         [kind |-> "ok", status |-> 200, read |-> "ok", text |-> T_HelloWorld]}

\* what "await fetch(url)" settles with: a rejection, or a Response of some
\* status
ContentAnswers(s) == {[kind |-> r.kind, status |-> r.status] : r \in ContentResponses(s)}

\* what "await textResponse.text()" settles with for a Response that is ok
ContentBodies(s) ==
    {[read |-> r.read, text |-> r.text] :
        r \in {q \in ContentResponses(s) : q.kind = "ok" /\ ResponseOk(q.status)}}

(***************************************************************************)
(* State.                                                                  *)
(***************************************************************************)
VARIABLES
    \* the loader's fields, set by the constructor
    boxFileIds, boxFolderId, recursive, characterLimit,
    \* "client": a boxClient was supplied; "auth": boxAuth.getClient() works;
    \* "badauth": boxAuth.getClient() throws; "envauth": the token BoxAuth the
    \* constructor built from BOX_DEVELOPER_TOKEN
    auth,
    \* the entry point of this run: "load" or "lazyLoad"
    entry,
    \* the remote service of this run, and the size of its flat folder
    svc, flatSize,
    \* where the loader stands
    pc,
    \* load()/lazyLoad(): position in boxFileIds
    idx,
    \* the folder calls in progress (loadFromFolder / iterateFolderFiles frames)
    stack,
    \* locals of the running loadFileById and getReadyRepresentation
    file, rep,
    \* what the last loadFileById returned
    doc,
    \* load(): its documents array; what the run ended with
    documents, outcome,
    \* lazyLoad(): the consumer has asked for the next Document; the Documents
    \* it has received
    demand, yielded,
    \* observations: the ids loadFileById was called with; per resolution the
    \* listing answers and the poll delays; per file the retry delays and the
    \* numbers of remote calls; per folder the offsets requested
    \* and how each loadFileById call's lookups ended; per file the content
    \* fetches made
    attempted, heard, delays, emptyDelays, calls, folderCalls, lookups, fetched,
    \* observation: what failed in the first fetch of the running loadFileById
    fault,
    \* observation: what the latest representation listing of the running
    \* loadFileById answered about the chosen kind
    said,
    \* observation: the exception the running loadFileById has caught in its
    \* outer or inner catch, and the kind of message logged for it
    caught,
    \* a file name put to getRepresentationTypeForFilename, and its answer
    probe,
    \* the options and the environment the constructor was called with
    options,
    \* the number of remote calls issued and not yet answered
    inflight,
    \* the invocations made on this loader before the running one: for each its
    \* entry point, the ids it called loadFileById with and the ids of the
    \* Documents it passed on
    past

loader == <<boxFileIds, boxFolderId, recursive, characterLimit, auth>>
config == <<boxFileIds, boxFolderId, recursive, characterLimit, auth, entry, svc, flatSize,
            probe, options, past>>
fileVars == <<pc, file, rep, doc>>
fileObs == <<heard, said, delays, emptyDelays, calls, fetched, fault>>
obsVars == <<heard, said, delays, emptyDelays, calls, fetched, fault, caught>>
vars == <<boxFileIds, boxFolderId, recursive, characterLimit, auth, entry, svc, flatSize,
          pc, idx, stack, file, rep, doc, documents, outcome, demand, yielded,
          attempted, heard, said, delays, emptyDelays, calls, folderCalls, lookups,
          fetched, fault, caught, probe, options, inflight, past>>

NoFileIds == << Absent >>

NoInfo == [name |-> Absent, extension |-> Absent, size |-> NoNumber,
           createdAt |-> Absent, modifiedAt |-> Absent]

NoFile == [fileId |-> Absent, fileInfo |-> NoInfo, fileName |-> << >>,
           repType |-> Absent, content |-> << >>, emptyAttempt |-> 0]

NoRep == [workingRep |-> NoEntry, isReady |-> FALSE, attempt |-> 0]

NoCalls == [meta |-> 0, list |-> 0, info |-> 0, content |-> 0, hints |-> << >>]

NoFault == [kind |-> "none", status |-> 0]

NoSaid == [kind |-> "none", entry |-> NoEntry]

NoCaught == [by |-> "none", status |-> 0, logged |-> "none"]

\* the status an exception may carry (statusCode, response.status or
\* status); 0 for an exception without one
ErrorStatuses == {0, 401, 403, 500}

\* if (status === 401 || status === 403) console.error('Authentication error
\* ...') else console.error('Error ...')
LoggedFor(status) == IF status = 401 \/ status = 403 THEN "authentication" ELSE "error"

\* a catch of loadFileById takes an exception of some status
Catch(by) ==
    \E status \in ErrorStatuses :
       caught' = [by |-> by, status |-> status, logged |-> LoggedFor(status)]

\* options of a loader that is already constructed
NoOptions == [boxAuth |-> "undefined", boxClient |-> "undefined", envToken |-> FALSE,
              boxFileIds |-> << Absent >>, boxFolderId |-> Absent,
              recursive |-> "undefined", characterLimit |-> NoNumber]

NoProbe == [stem |-> << >>, ext |-> Absent, casing |-> "lower", name |-> Absent,
            kind |-> Absent]

\* The loader runs when load() was called, or while the consumer of
\* lazyLoad() awaits the next Document
Running == outcome = "running" /\ (entry = "load" \/ demand)

(***************************************************************************)
(* loadFileById                                                            *)
(***************************************************************************)
LookupFailed(fileId) == [fileId |-> fileId, ok |-> FALSE]

\* what a content fetch brought: the text, blank text as T_Empty, or Absent
FetchedText(text) ==
    IF text = Absent THEN Absent
    ELSE IF Len(Trim(text)) = 0 THEN T_Empty
    ELSE text

\* the call this.loadFileById(fileId)
CallLoadFileById(fileId) ==
    /\ pc' = "file_client"
    /\ file' = [NoFile EXCEPT !.fileId = fileId]
    /\ rep' = NoRep
    /\ doc' = NoDocument
    /\ attempted' = Append(attempted, fileId)
    /\ heard' = << >>
    /\ said' = NoSaid
    /\ delays' = << >>
    /\ emptyDelays' = << >>
    /\ calls' = NoCalls
    /\ fetched' = << >>
    /\ fault' = NoFault
    /\ caught' = NoCaught

\* loadFileById has returned and its result was taken: its locals are gone
ForgetFile ==
    /\ file' = NoFile
    /\ rep' = NoRep
    /\ doc' = NoDocument
    /\ heard' = << >>
    /\ said' = NoSaid
    /\ delays' = << >>
    /\ emptyDelays' = << >>
    /\ calls' = NoCalls
    /\ fetched' = << >>
    /\ fault' = NoFault
    /\ caught' = NoCaught

\* the outer catch: return null
ReturnNull ==
    /\ pc' = "file_return"
    /\ doc' = NoDocument
    /\ UNCHANGED <<file, rep>>
    /\ Catch("outer")

\* faulty variant: a file whose content stayed blank is given up
ReturnDocumentUnlessBlank(f, r) ==
    /\ pc' = "file_return"
    /\ file' = f
    /\ rep' = r
    /\ doc' = IF Len(Trim(f.content)) = 0
              THEN NoDocument
              ELSE MakeDocument(f.fileId, f.fileInfo,
                                ApplyCharacterLimit(f.content, characterLimit))

\* from "if (this.characterLimit && ..." to "return new Document(...)"
ReturnDocument(f, r) ==
    /\ pc' = "file_return"
    /\ file' = f
    /\ rep' = r
    /\ doc' = MakeDocument(f.fileId, f.fileInfo,
                           ApplyCharacterLimit(f.content, characterLimit))

\* faulty variant: the retry loop runs once more than maxEmptyRetries
NextEmptyAttemptOnceMore(f, r) ==
    IF f.emptyAttempt <= maxEmptyRetries
    THEN /\ pc' = "empty_delay"
         /\ file' = [f EXCEPT !.emptyAttempt = @ + 1]
         /\ rep' = r
         /\ doc' = doc
    ELSE ReturnDocument(f, r)

\* the empty-content retry loop moves to its next attempt, or ends
NextEmptyAttempt(f, r) ==
    IF f.emptyAttempt < maxEmptyRetries
    THEN /\ pc' = "empty_delay"
         /\ file' = [f EXCEPT !.emptyAttempt = @ + 1]
         /\ rep' = r
         /\ doc' = doc
    ELSE ReturnDocument(f, r)

\* faulty variant: the inner catch gives the file up instead of setting the content
ThrownDropsFile(f, r) ==
    IF f.emptyAttempt = 0
    THEN /\ pc' = "file_return" /\ doc' = NoDocument /\ file' = f /\ rep' = r
         /\ Catch("inner")
    ELSE /\ NextEmptyAttempt(f, r)
         /\ caught' = caught

\* faulty variant: an exception of status 401 or 403 gives the file up
ThrownAuthDrops(f, r) ==
    IF f.emptyAttempt = 0
    THEN /\ Catch("inner")
         /\ IF caught'.logged = "authentication"
            THEN pc' = "file_return" /\ doc' = NoDocument /\ file' = f /\ rep' = r
            ELSE ReturnDocument([f EXCEPT !.content = ErrorReadingFile(f.fileName)], r)
    ELSE /\ NextEmptyAttempt(f, r)
         /\ caught' = caught

\* an exception inside the inner try: in the first attempt the inner catch
\* sets the content, in a retry the retry's own catch moves on
Thrown(f, r) ==
    IF f.emptyAttempt = 0
    THEN /\ ReturnDocument([f EXCEPT !.content = ErrorReadingFile(f.fileName)], r)
         /\ Catch("inner")
    ELSE /\ NextEmptyAttempt(f, r)
         /\ caught' = caught

\* faulty variant: a result without a representation is treated as a failure
ResolvedOrThrown(f, r, res) ==
    IF res.ready
    THEN /\ pc' = "info_fetch"
         /\ file' = f
         /\ rep' = r
         /\ doc' = doc
         /\ caught' = caught
    ELSE Thrown(f, r)

\* getReadyRepresentation returned res
Resolved(f, r, res) ==
    /\ caught' = caught
    /\ IF res.ready
       THEN /\ pc' = "info_fetch"
            /\ file' = f
            /\ rep' = r
            /\ doc' = doc
       ELSE IF f.emptyAttempt = 0
            THEN ReturnDocument([f EXCEPT !.content = OrEmpty(res.content)], r)
            ELSE NextEmptyAttempt(f, r)

\* faulty variant: a client that cannot be obtained ends the run
FileGetClientFatal ==
    /\ Running /\ pc = "file_client"
    /\ IF auth = "badauth"
       THEN /\ outcome' = "threw" /\ pc' = "done" /\ demand' = FALSE
            /\ UNCHANGED <<file, rep, doc, lookups, idx, stack>>
       ELSE /\ pc' = "file_token"
            /\ UNCHANGED <<file, rep, doc, lookups, idx, stack, outcome, demand>>
    /\ UNCHANGED <<config, documents, yielded, attempted, obsVars, folderCalls>>
    /\ UNCHANGED inflight

\* const client = await this.getClient()
FileGetClient ==
    /\ Running /\ pc = "file_client"
    /\ IF auth = "badauth"
       THEN ReturnNull /\ lookups' = Append(lookups, LookupFailed(file.fileId))
       ELSE pc' = "file_token" /\ UNCHANGED <<file, rep, doc, lookups, caught>>
    /\ UNCHANGED <<config, idx, stack, documents, outcome, demand, yielded,
                   attempted, fileObs, folderCalls>>
    /\ UNCHANGED inflight

\* const token = await client.auth.retrieveToken()
FileRetrieveToken ==
    /\ Running /\ pc = "file_token"
    /\ \E r \in TokenResponses(svc) :
         IF r = "throw"
         THEN ReturnNull /\ lookups' = Append(lookups, LookupFailed(file.fileId))
         ELSE pc' = "file_meta" /\ UNCHANGED <<file, rep, doc, lookups, caught>>
    /\ UNCHANGED <<config, idx, stack, documents, outcome, demand, yielded,
                   attempted, fileObs, folderCalls>>
    /\ inflight = 1 /\ inflight' = 0

\* faulty variant: a video is not skipped
FileGetInfoSkipsImagesOnly ==
    /\ Running /\ pc = "file_meta"
    /\ calls' = [calls EXCEPT !.meta = @ + 1]
    /\ \E r \in MetaResponses(svc) :
         IF r = "throw"
         THEN ReturnNull /\ lookups' = Append(lookups, LookupFailed(file.fileId))
         ELSE LET fileInfo == FileInfoOf(file.fileId)
                  fileName == OrEmpty(fileInfo.name)
              IN  /\ lookups' = Append(lookups, [fileId |-> file.fileId, ok |-> TRUE])
                  /\ caught' = caught
                  /\ IF isImageFile(fileName)
                     THEN /\ pc' = "file_return"
                          /\ doc' = NoDocument
                          /\ file' = [file EXCEPT !.fileInfo = fileInfo,
                                                  !.fileName = fileName]
                          /\ rep' = rep
                     ELSE /\ pc' = "rep_list"
                          /\ file' = [file EXCEPT
                                        !.fileInfo = fileInfo,
                                        !.fileName = fileName,
                                        !.repType =
                                            getRepresentationTypeForFilename(fileName)]
                          /\ UNCHANGED <<rep, doc>>
    /\ UNCHANGED <<config, idx, stack, documents, outcome, demand, yielded,
                   attempted, heard, said, delays, emptyDelays, fetched, fault, folderCalls>>
    /\ inflight = 1 /\ inflight' = 0

\* const fileInfo = await client.files.getFileById(fileId), the image/video
\* skip and the choice of the representation type
FileGetInfo ==
    /\ Running /\ pc = "file_meta"
    /\ calls' = [calls EXCEPT !.meta = @ + 1]
    /\ \E r \in MetaResponses(svc) :
         IF r = "throw"
         THEN ReturnNull /\ lookups' = Append(lookups, LookupFailed(file.fileId))
         ELSE LET fileInfo == FileInfoOf(file.fileId)
                  fileName == OrEmpty(fileInfo.name)
              IN  /\ lookups' = Append(lookups, [fileId |-> file.fileId, ok |-> TRUE])
                  /\ caught' = caught
                  /\ IF isImageFile(fileName) \/ isVideoFile(fileName)
                     THEN /\ pc' = "file_return"
                          /\ doc' = NoDocument
                          /\ file' = [file EXCEPT !.fileInfo = fileInfo,
                                                  !.fileName = fileName]
                          /\ rep' = rep
                     ELSE /\ pc' = "rep_list"
                          /\ file' = [file EXCEPT
                                        !.fileInfo = fileInfo,
                                        !.fileName = fileName,
                                        !.repType =
                                            getRepresentationTypeForFilename(fileName)]
                          /\ UNCHANGED <<rep, doc>>
    /\ UNCHANGED <<config, idx, stack, documents, outcome, demand, yielded,
                   attempted, heard, said, delays, emptyDelays, fetched, fault, folderCalls>>
    /\ inflight = 1 /\ inflight' = 0

\* what a listing answer says about the chosen kind
HeardOf(r, repType) ==
    IF r.kind = "throw" THEN "throw"
    ELSE LET found == IF r.kind = "noreps" THEN NoEntry
                      ELSE FindRepresentation(r.entries, repType)
         IN  IF found = NoEntry THEN "other"
             ELSE IF IsReady(found) /\ Truthy(found.infoUrl) THEN "ready"
             ELSE IF found.state \in {"pending", "processing"} THEN "pending"
             ELSE "other"

\* what a listing answer holds for the chosen kind: the entry found, if any
SaidOf(r, repType) ==
    [kind |-> r.kind,
     entry |-> IF r.kind = "ok" THEN FindRepresentation(r.entries, repType) ELSE NoEntry]

\* faulty variant: a listing without the chosen kind is polled again
RepListPollsMissing ==
    /\ Running /\ pc = "rep_list"
    /\ calls' = [calls EXCEPT !.list = @ + 1, !.hints = Append(@, file.repType)]
    /\ delays' = << >>
    /\ \E r \in ListResponses(svc, file.repType) :
         /\ heard' = << HeardOf(r, file.repType) >>
         /\ said' = SaidOf(r, file.repType)
         /\ IF r.kind = "throw" THEN Thrown(file, NoRep)
            ELSE IF r.kind = "noreps"
            THEN Resolved(file, NoRep,
                          [ready |-> FALSE, content |-> NoRepresentationsList(file.fileName)])
            ELSE LET found == FindRepresentation(r.entries, file.repType)
                     isReady == IsReady(found)
                     r1 == [workingRep |-> found, isReady |-> isReady, attempt |-> 0]
                 IN  IF found = NoEntry
                     THEN /\ pc' = "rep_delay"
                          /\ rep' = [NoRep EXCEPT !.attempt = 1]
                          /\ UNCHANGED <<file, doc, caught>>
                     ELSE IF ~isReady /\ found.state \in {"pending", "processing"}
                     THEN /\ pc' = "rep_delay"
                          /\ rep' = [r1 EXCEPT !.attempt = 1]
                          /\ UNCHANGED <<file, doc, caught>>
                     ELSE Resolved(file, r1,
                                   ResolveResult(found, isReady, file.repType, file.fileName))
    /\ UNCHANGED <<config, idx, stack, documents, outcome, demand, yielded,
                   attempted, emptyDelays, fetched, fault, folderCalls, lookups>>
    /\ inflight = 1 /\ inflight' = 0

\* getReadyRepresentation up to its first await's answer: the listing call,
\* the two early returns, and the readiness test of the entry found
RepList ==
    /\ Running /\ pc = "rep_list"
    /\ calls' = [calls EXCEPT !.list = @ + 1, !.hints = Append(@, file.repType)]
    /\ delays' = << >>
    /\ \E r \in ListResponses(svc, file.repType) :
         /\ heard' = << HeardOf(r, file.repType) >>
         /\ said' = SaidOf(r, file.repType)
         /\ IF r.kind = "throw" THEN Thrown(file, NoRep)
            ELSE IF r.kind = "noreps"
            THEN Resolved(file, NoRep,
                          [ready |-> FALSE, content |-> NoRepresentationsList(file.fileName)])
            ELSE LET found == FindRepresentation(r.entries, file.repType)
                     isReady == IsReady(found)
                     r1 == [workingRep |-> found, isReady |-> isReady, attempt |-> 0]
                 IN  IF found = NoEntry
                     THEN Resolved(file, NoRep,
                                   [ready |-> FALSE,
                                    content |-> NoRepresentation(file.repType, file.fileName)])
                     ELSE IF ~isReady /\ found.state \in {"pending", "processing"}
                     THEN /\ pc' = "rep_delay"
                          /\ rep' = [r1 EXCEPT !.attempt = 1]
                          /\ UNCHANGED <<file, doc, caught>>
                     ELSE Resolved(file, r1,
                                   ResolveResult(found, isReady, file.repType, file.fileName))
    /\ UNCHANGED <<config, idx, stack, documents, outcome, demand, yielded,
                   attempted, emptyDelays, fetched, fault, folderCalls, lookups>>
    /\ inflight = 1 /\ inflight' = 0

\* faulty variant: the same delay before every poll
RepDelayFlat ==
    /\ Running /\ pc = "rep_delay"
    /\ delays' = Append(delays, PollDelayMs)
    /\ pc' = "rep_poll"
    /\ UNCHANGED <<config, idx, stack, file, rep, doc, documents, outcome, demand,
                   yielded, attempted, heard, said, emptyDelays, calls, fetched, fault, caught, folderCalls,
                   lookups>>
    /\ UNCHANGED inflight

\* await new Promise(resolve => setTimeout(resolve, 1500 * attempt))
RepDelay ==
    /\ Running /\ pc = "rep_delay"
    /\ delays' = Append(delays, PollDelayMs * rep.attempt)
    /\ pc' = "rep_poll"
    /\ UNCHANGED <<config, idx, stack, file, rep, doc, documents, outcome, demand,
                   yielded, attempted, heard, said, emptyDelays, calls, fetched, fault, caught, folderCalls,
                   lookups>>
    /\ UNCHANGED inflight

\* faulty variant: a polled entry that is not ready does not replace the earlier one
RepPollKeepsEarlier ==
    /\ Running /\ pc = "rep_poll"
    /\ calls' = [calls EXCEPT !.list = @ + 1, !.hints = Append(@, file.repType)]
    /\ \E r \in ListResponses(svc, file.repType) :
         /\ heard' = Append(heard, HeardOf(r, file.repType))
         /\ said' = SaidOf(r, file.repType)
         /\ IF r.kind = "throw" THEN Thrown(file, rep)
            ELSE LET refreshedRep == IF r.kind = "noreps" THEN NoEntry
                                     ELSE FindRepresentation(r.entries, file.repType)
                     r1 == IF refreshedRep # NoEntry /\ IsReady(refreshedRep)
                           THEN [rep EXCEPT !.workingRep = refreshedRep,
                                            !.isReady = IsReady(refreshedRep)]
                           ELSE rep
                 IN  IF refreshedRep # NoEntry /\ r1.isReady
                     THEN Resolved(file, r1,
                                   ResolveResult(r1.workingRep, r1.isReady,
                                                 file.repType, file.fileName))
                     ELSE IF rep.attempt < maxRetries
                     THEN /\ pc' = "rep_delay"
                          /\ rep' = [r1 EXCEPT !.attempt = @ + 1]
                          /\ UNCHANGED <<file, doc, caught>>
                     ELSE Resolved(file, r1,
                                   ResolveResult(r1.workingRep, r1.isReady,
                                                 file.repType, file.fileName))
    /\ UNCHANGED <<config, idx, stack, documents, outcome, demand, yielded,
                   attempted, delays, emptyDelays, fetched, fault, folderCalls, lookups>>
    /\ inflight = 1 /\ inflight' = 0

\* faulty variant: the poll loop runs once more than maxRetries
RepPollOnceMore ==
    /\ Running /\ pc = "rep_poll"
    /\ calls' = [calls EXCEPT !.list = @ + 1, !.hints = Append(@, file.repType)]
    /\ \E r \in ListResponses(svc, file.repType) :
         /\ heard' = Append(heard, HeardOf(r, file.repType))
         /\ said' = SaidOf(r, file.repType)
         /\ IF r.kind = "throw" THEN Thrown(file, rep)
            ELSE LET refreshedRep == IF r.kind = "noreps" THEN NoEntry
                                     ELSE FindRepresentation(r.entries, file.repType)
                     r1 == IF refreshedRep # NoEntry
                           THEN [rep EXCEPT !.workingRep = refreshedRep,
                                            !.isReady = IsReady(refreshedRep)]
                           ELSE rep
                 IN  IF refreshedRep # NoEntry /\ r1.isReady
                     THEN Resolved(file, r1,
                                   ResolveResult(r1.workingRep, r1.isReady,
                                                 file.repType, file.fileName))
                     ELSE IF rep.attempt <= maxRetries
                     THEN /\ pc' = "rep_delay"
                          /\ rep' = [r1 EXCEPT !.attempt = @ + 1]
                          /\ UNCHANGED <<file, doc, caught>>
                     ELSE Resolved(file, r1,
                                   ResolveResult(r1.workingRep, r1.isReady,
                                                 file.repType, file.fileName))
    /\ UNCHANGED <<config, idx, stack, documents, outcome, demand, yielded,
                   attempted, delays, emptyDelays, fetched, fault, folderCalls, lookups>>
    /\ inflight = 1 /\ inflight' = 0

\* faulty variant: a poll asks for the other representation kind
RepPollOtherKind ==
    /\ Running /\ pc = "rep_poll"
    /\ calls' = [calls EXCEPT !.list = @ + 1, !.hints = Append(@, OtherKind(file.repType))]
    /\ \E r \in ListResponses(svc, OtherKind(file.repType)) :
         /\ heard' = Append(heard, HeardOf(r, file.repType))
         /\ said' = SaidOf(r, file.repType)
         /\ IF r.kind = "throw" THEN Thrown(file, rep)
            ELSE LET refreshedRep == IF r.kind = "noreps" THEN NoEntry
                                     ELSE FindRepresentation(r.entries, file.repType)
                     r1 == IF refreshedRep # NoEntry
                           THEN [rep EXCEPT !.workingRep = refreshedRep,
                                            !.isReady = IsReady(refreshedRep)]
                           ELSE rep
                 IN  IF refreshedRep # NoEntry /\ r1.isReady
                     THEN Resolved(file, r1,
                                   ResolveResult(r1.workingRep, r1.isReady,
                                                 file.repType, file.fileName))
                     ELSE IF rep.attempt < maxRetries
                     THEN /\ pc' = "rep_delay"
                          /\ rep' = [r1 EXCEPT !.attempt = @ + 1]
                          /\ UNCHANGED <<file, doc, caught>>
                     ELSE Resolved(file, r1,
                                   ResolveResult(r1.workingRep, r1.isReady,
                                                 file.repType, file.fileName))
    /\ UNCHANGED <<config, idx, stack, documents, outcome, demand, yielded,
                   attempted, delays, emptyDelays, fetched, fault, folderCalls, lookups>>
    /\ inflight = 1 /\ inflight' = 0

\* one iteration of the polling loop after its delay: the listing call, the
\* update of workingRep, and the loop's exit or next attempt
RepPoll ==
    /\ Running /\ pc = "rep_poll"
    /\ calls' = [calls EXCEPT !.list = @ + 1, !.hints = Append(@, file.repType)]
    /\ \E r \in ListResponses(svc, file.repType) :
         /\ heard' = Append(heard, HeardOf(r, file.repType))
         /\ said' = SaidOf(r, file.repType)
         /\ IF r.kind = "throw" THEN Thrown(file, rep)
            ELSE LET refreshedRep == IF r.kind = "noreps" THEN NoEntry
                                     ELSE FindRepresentation(r.entries, file.repType)
                     r1 == IF refreshedRep # NoEntry
                           THEN [rep EXCEPT !.workingRep = refreshedRep,
                                            !.isReady = IsReady(refreshedRep)]
                           ELSE rep
                 IN  IF refreshedRep # NoEntry /\ r1.isReady
                     THEN Resolved(file, r1,
                                   ResolveResult(r1.workingRep, r1.isReady,
                                                 file.repType, file.fileName))
                     ELSE IF rep.attempt < maxRetries
                     THEN /\ pc' = "rep_delay"
                          /\ rep' = [r1 EXCEPT !.attempt = @ + 1]
                          /\ UNCHANGED <<file, doc, caught>>
                     ELSE Resolved(file, r1,
                                   ResolveResult(r1.workingRep, r1.isReady,
                                                 file.repType, file.fileName))
    /\ UNCHANGED <<config, idx, stack, documents, outcome, demand, yielded,
                   attempted, delays, emptyDelays, fetched, fault, folderCalls, lookups>>
    /\ inflight = 1 /\ inflight' = 0

\* what loadFileById does when getRepresentationUrlFromInfo returned no url
\* but this content: in the first attempt the content of the Document, in a
\* retry the next attempt
NoUrl(content) ==
    IF file.emptyAttempt = 0
    THEN ReturnDocument([file EXCEPT !.content = content], rep)
    ELSE NextEmptyAttempt(file, rep)

\* the failure of the first attempt's info fetch
InfoFailed(kind, status) ==
    fault' = IF file.emptyAttempt = 0 THEN [kind |-> kind, status |-> status] ELSE fault

\* getRepresentationUrlFromInfo(rep.info?.url, ...) up to the end of
\* "await fetch(infoUrl, ...)": without an infoUrl no request is made; a
\* rejected fetch is an exception of loadFileById's inner try; a status other
\* than 200 is returned as content; a Response of status 200 has its body
\* read, which the request stays in flight for
InfoFetch ==
    /\ Running /\ pc = "info_fetch"
    /\ IF ~Truthy(rep.workingRep.infoUrl)
       THEN /\ NoUrl(NoRepresentationUrl(file.repType, file.fileName))
            /\ calls' = calls
            /\ fault' = fault
            /\ caught' = caught
            /\ UNCHANGED inflight
       ELSE /\ inflight = 1
            /\ calls' = [calls EXCEPT !.info = @ + 1]
            /\ \E r \in InfoAnswers(svc) :
                 IF r.kind = "throw"
                 THEN /\ Thrown(file, rep)
                      /\ InfoFailed("info_network", 0)
                      /\ inflight' = 0
                 ELSE IF r.status # 200
                 THEN /\ NoUrl(FailedToGetUrl(file.repType, file.fileName, r.status))
                      /\ InfoFailed("info_status", r.status)
                      /\ caught' = caught
                      /\ inflight' = 0
                 ELSE /\ pc' = "info_body"
                      /\ UNCHANGED <<file, rep, doc, fault, caught, inflight>>
    /\ UNCHANGED <<config, idx, stack, documents, outcome, demand, yielded,
                   attempted, heard, said, delays, emptyDelays, fetched, folderCalls, lookups>>

\* getRepresentationUrlFromInfo from "await response.text()" on, and what
\* loadFileById does with its result: a body that cannot be read or parsed
\* is the 'Invalid representation data format' content, a missing or empty
\* url_template the 'No representation URL' content
InfoBody ==
    /\ Running /\ pc = "info_body"
    /\ \E r \in InfoBodies(svc) :
         IF r.body # "json"
         THEN /\ NoUrl(InvalidDataFormat(file.fileName))
              /\ InfoFailed("info_json", 0)
         ELSE IF ~Truthy(r.template)
         THEN /\ NoUrl(NoRepresentationUrl(file.repType, file.fileName))
              /\ InfoFailed("info_template", 0)
         ELSE LET url == ReplaceFirst(r.template, S_AssetPath, << >>)
              IN  IF ~Truthy(url)
                  THEN /\ NoUrl(<< >>)
                       /\ fault' = fault
                  ELSE /\ pc' = "content_fetch"
                       /\ UNCHANGED <<file, rep, doc, fault>>
    /\ UNCHANGED <<config, idx, stack, documents, outcome, demand, yielded,
                   attempted, heard, said, delays, emptyDelays, calls, fetched, caught,
                   folderCalls, lookups>>
    /\ inflight = 1 /\ inflight' = 0

\* faulty variant: a retry that found text stores it and goes on retrying
RetryFetchedNoBreak(retryText) ==
    IF Len(Trim(OrEmpty(retryText))) > 0
    THEN NextEmptyAttempt([file EXCEPT !.content = retryText], rep)
    ELSE NextEmptyAttempt(file, rep)

\* the end of a retry: if ((retryText ?? '').trim().length > 0)
\* { content = retryText; break; }
RetryFetched(retryText) ==
    IF Len(Trim(OrEmpty(retryText))) > 0
    THEN ReturnDocument([file EXCEPT !.content = retryText], rep)
    ELSE NextEmptyAttempt(file, rep)

\* the result { content } of fetchFromRepresentationUrl for a failure
FetchFailure(content) == [text |-> Absent, content |-> content]

\* the result { text } of fetchFromRepresentationUrl
FetchSuccess(text) == [text |-> text, content |-> Absent]

\* faulty variant: a content fetch that failed counts as empty content
ContentFetchedRetriesFailures(res, failure) ==
    /\ fetched' = Append(fetched, [attempt |-> file.emptyAttempt,
                                   text |-> FetchedText(res.text)])
    /\ fault' = IF file.emptyAttempt # 0 THEN fault
                ELSE IF failure # NoFault THEN failure
                ELSE IF Len(Trim(res.text)) = 0 THEN [kind |-> "empty", status |-> 0]
                ELSE fault
    /\ IF file.emptyAttempt = 0
       THEN LET content == IF res.text # Absent THEN res.text
                           ELSE IF FALSE THEN res.content
                           ELSE << >>
                f == [file EXCEPT !.content = content]
            IN  IF Len(Trim(content)) = 0
                THEN NextEmptyAttempt(f, rep)
                ELSE ReturnDocument(f, rep)
       ELSE RetryFetched(res.text)

\* what loadFileById does with the result of fetchFromRepresentationUrl: in
\* the first attempt "content = fetchResult.text ?? fetchResult.content ?? ''"
\* and the test for emptiness, in a retry the test of retryText
ContentFetched(res, failure) ==
    /\ fetched' = Append(fetched, [attempt |-> file.emptyAttempt,
                                   text |-> FetchedText(res.text)])
    /\ fault' = IF file.emptyAttempt # 0 THEN fault
                ELSE IF failure # NoFault THEN failure
                ELSE IF Len(Trim(res.text)) = 0 THEN [kind |-> "empty", status |-> 0]
                ELSE fault
    /\ IF file.emptyAttempt = 0
       THEN LET content == IF res.text # Absent THEN res.text
                           ELSE IF res.content # Absent THEN res.content
                           ELSE << >>
                f == [file EXCEPT !.content = content]
            IN  IF Len(Trim(content)) = 0
                THEN NextEmptyAttempt(f, rep)
                ELSE ReturnDocument(f, rep)
       ELSE RetryFetched(res.text)

\* fetchFromRepresentationUrl up to the end of "await fetch(url, ...)": a
\* rejected fetch is the 'Network error' content, a Response that is not ok
\* the 'Failed to fetch' content; a Response that is ok has its body read,
\* which the request stays in flight for
ContentFetch ==
    /\ Running /\ pc = "content_fetch"
    /\ calls' = [calls EXCEPT !.content = @ + 1]
    /\ caught' = caught
    /\ \E r \in ContentAnswers(svc) :
         IF r.kind = "throw"
         THEN ContentFetched(FetchFailure(NetworkError(file.repType, file.fileName)),
                             [kind |-> "content_network", status |-> 0])
         ELSE IF ~ResponseOk(r.status)
         THEN ContentFetched(FetchFailure(FailedToFetch(file.repType, file.fileName,
                                                        r.status)),
                             [kind |-> "content_status", status |-> r.status])
         ELSE /\ pc' = "content_body"
              /\ UNCHANGED <<file, rep, doc, fetched, fault>>
    /\ UNCHANGED <<config, idx, stack, documents, outcome, demand, yielded,
                   attempted, heard, said, delays, emptyDelays, folderCalls, lookups>>
    /\ inflight = 1 /\ inflight' = IF pc' = "content_body" THEN 1 ELSE 0

\* fetchFromRepresentationUrl from "await textResponse.text()" on: the text
\* of the body, or, when reading it fails, the 'Network error' content of
\* the catch
ContentBody ==
    /\ Running /\ pc = "content_body"
    /\ \E r \in ContentBodies(svc) :
         IF r.read = "throw"
         THEN ContentFetched(FetchFailure(NetworkError(file.repType, file.fileName)),
                             [kind |-> "content_network", status |-> 0])
         ELSE ContentFetched(FetchSuccess(r.text), NoFault)
    /\ UNCHANGED <<config, idx, stack, documents, outcome, demand, yielded,
                   attempted, heard, said, delays, emptyDelays, calls, caught,
                   folderCalls, lookups>>
    /\ inflight = 1 /\ inflight' = 0

\* faulty variant: the same delay before every retry
EmptyDelayFlat ==
    /\ Running /\ pc = "empty_delay"
    /\ emptyDelays' = Append(emptyDelays, EmptyDelayMs)
    /\ pc' = "rep_list"
    /\ UNCHANGED <<config, idx, stack, file, rep, doc, documents, outcome, demand,
                   yielded, attempted, heard, said, delays, calls, fetched, fault, caught, folderCalls, lookups>>
    /\ UNCHANGED inflight

\* await new Promise(resolve => setTimeout(resolve, 1000 * attempt)) of the
\* retry loop; the retry's getReadyRepresentation follows
EmptyDelay ==
    /\ Running /\ pc = "empty_delay"
    /\ emptyDelays' = Append(emptyDelays, EmptyDelayMs * file.emptyAttempt)
    /\ pc' = "rep_list"
    /\ UNCHANGED <<config, idx, stack, file, rep, doc, documents, outcome, demand,
                   yielded, attempted, heard, said, delays, calls, fetched, fault, caught, folderCalls, lookups>>
    /\ UNCHANGED inflight

(***************************************************************************)
(* The folders of the remote service.                                      *)
(***************************************************************************)
D20 == <<"2", "0">>
D21 == <<"2", "1">>
D22 == <<"2", "2">>
D30 == <<"3", "0">>
W1 == <<"9", "1">>

\* the ids of the flat folder's files start with this; they are files of
\* the service that FileInfoOf does not list
FlatPrefix == <<"7">>

\* The entries of each folder, in the service's order.  D20 holds two files
\* and a subfolder; D30 is a flat folder of flatSize files.
FolderEntriesOf(folderId, n) ==
    CASE folderId = D20 -> << [type |-> "file", id |-> F11],
                              [type |-> "folder", id |-> D21],
                              [type |-> "file", id |-> F13] >>
      [] folderId = D21 -> << [type |-> "file", id |-> F12],
                              [type |-> "web_link", id |-> W1],
                              [type |-> "folder", id |-> D22],
                              [type |-> "file", id |-> F16] >>
      [] folderId = D22 -> << [type |-> "file", id |-> F14],
                              [type |-> "file", id |-> F15] >>
      [] folderId = D30 -> [i \in 1..n |-> [type |-> "file", id |-> FlatPrefix \o NatToString(i)]]
      [] OTHER -> << >>

\* folders.getFolderItems(folderId, {offset, limit}): the service serves the
\* entries from offset on, at most pageLimit of them
FolderPageOf(folderId, n, offset, pageLimit) ==
    LET all == FolderEntriesOf(folderId, n)
    IN  SubSeq(all, offset + 1, Min(offset + pageLimit, Len(all)))

FolderResponses == {"ok", "throw"}

\* the answers to the page request at an offset
FolderResponsesAt(s, offset) ==
    IF s = "steady_p2" THEN (IF offset > 0 THEN {"throw"} ELSE {"ok"})
    ELSE IF Steady(s) THEN {"ok"}
    ELSE FolderResponses

NewFrame(folderId) ==
    [folderId |-> folderId, items |-> << >>, pos |-> 1, offset |-> 0, docs |-> << >>]

Top == stack[Len(stack)]
Pop(s) == SubSeq(s, 1, Len(s) - 1)
SetTop(s, fr) == [s EXCEPT ![Len(s)] = fr]

\* the run ends: load() returns or throws, lazyLoad() completes or throws
End(o) ==
    /\ outcome' = o
    /\ pc' = "done"
    /\ demand' = FALSE

(***************************************************************************)
(* load()                                                                  *)
(***************************************************************************)
LoadStart ==
    /\ Running /\ pc = "start" /\ entry = "load"
    /\ IF boxFileIds # NoFileIds
       THEN /\ pc' = "ids_next"
            /\ idx' = 1
            /\ UNCHANGED <<stack, outcome, demand>>
       ELSE IF Truthy(boxFolderId)
       THEN /\ pc' = "folder_client"
            /\ stack' = << NewFrame(boxFolderId) >>
            /\ UNCHANGED <<idx, outcome, demand>>
       ELSE /\ End("threw")
            /\ UNCHANGED <<idx, stack>>
    /\ UNCHANGED <<config, file, rep, doc, documents, yielded, attempted, obsVars,
                   folderCalls, lookups>>
    /\ UNCHANGED inflight

\* faulty variant: after the ids the folder is loaded as well
IdsNextThenFolder ==
    /\ Running /\ pc = "ids_next"
    /\ IF idx <= Len(boxFileIds)
       THEN /\ CallLoadFileById(boxFileIds[idx])
            /\ UNCHANGED <<stack, outcome, demand>>
       ELSE IF Truthy(boxFolderId)
       THEN /\ pc' = IF entry = "load" THEN "folder_client" ELSE "lazy_client"
            /\ stack' = IF entry = "load" THEN << NewFrame(boxFolderId) >> ELSE stack
            /\ UNCHANGED <<outcome, demand>>
            /\ UNCHANGED <<file, rep, doc, attempted, obsVars>>
       ELSE /\ End("returned")
            /\ UNCHANGED <<stack, file, rep, doc, attempted, obsVars>>
    /\ UNCHANGED <<config, idx, documents, yielded, folderCalls, lookups>>
    /\ UNCHANGED inflight

\* the head of "for (const fileId of this.boxFileIds)", in load() and lazyLoad()
IdsNext ==
    /\ Running /\ pc = "ids_next"
    /\ IF idx <= Len(boxFileIds)
       THEN /\ CallLoadFileById(boxFileIds[idx])
            /\ UNCHANGED <<outcome, demand>>
       ELSE /\ End("returned")
            /\ UNCHANGED <<file, rep, doc, attempted, obsVars>>
    /\ UNCHANGED <<config, idx, stack, documents, yielded, folderCalls, lookups>>
    /\ UNCHANGED inflight

\* faulty variant: the loop over boxFileIds ends at the first file that gave null
IdsFileReturnStops ==
    /\ Running /\ pc = "file_return" /\ stack = << >>
    /\ pc' = "ids_next"
    /\ idx' = IF doc = NoDocument THEN Len(boxFileIds) + 1 ELSE idx + 1
    /\ IF doc = NoDocument
       THEN UNCHANGED <<documents, yielded, demand>>
       ELSE IF entry = "load"
       THEN /\ documents' = Append(documents, doc)
            /\ UNCHANGED <<yielded, demand>>
       ELSE /\ yielded' = Append(yielded, doc)
            /\ demand' = FALSE
            /\ UNCHANGED documents
    /\ ForgetFile
    /\ UNCHANGED <<config, stack, outcome, attempted, folderCalls, lookups>>
    /\ UNCHANGED inflight

\* loadFileById has returned to the loop over boxFileIds: load() pushes the
\* Document, lazyLoad() yields it
IdsFileReturn ==
    /\ Running /\ pc = "file_return" /\ stack = << >>
    /\ pc' = "ids_next"
    /\ idx' = idx + 1
    /\ IF doc = NoDocument
       THEN UNCHANGED <<documents, yielded, demand>>
       ELSE IF entry = "load"
       THEN /\ documents' = Append(documents, doc)
            /\ UNCHANGED <<yielded, demand>>
       ELSE /\ yielded' = Append(yielded, doc)
            /\ demand' = FALSE
            /\ UNCHANGED documents
    /\ ForgetFile
    /\ UNCHANGED <<config, stack, outcome, attempted, folderCalls, lookups>>
    /\ UNCHANGED inflight

(***************************************************************************)
(* loadFromFolder and getFolderItems                                       *)
(***************************************************************************)
\* const client = await this.getClient(), outside the try: a failure leaves
\* loadFromFolder, and is caught by the loadFromFolder that called it, if any
FolderGetClient ==
    /\ Running /\ pc = "folder_client"
    /\ IF auth # "badauth"
       THEN /\ pc' = "folder_page"
            /\ UNCHANGED <<stack, outcome, demand>>
       ELSE IF Len(stack) = 1
       THEN /\ End("threw")
            /\ stack' = << >>
       ELSE /\ pc' = "folder_return"
            /\ stack' = Pop(stack)
            /\ UNCHANGED <<outcome, demand>>
    /\ UNCHANGED <<config, idx, file, rep, doc, documents, yielded, attempted,
                   obsVars, folderCalls, lookups>>
    /\ UNCHANGED inflight

\* faulty variant: one page per folder
FolderPageOnce ==
    /\ Running /\ pc = "folder_page"
    /\ \E r \in FolderResponsesAt(svc, Top.offset) :
         LET entries == FolderPageOf(Top.folderId, flatSize, Top.offset, limit)
         IN  /\ folderCalls' = Append(folderCalls,
                   [folderId |-> Top.folderId, offset |-> Top.offset, limit |-> limit,
                    answer |-> r, received |-> IF r = "ok" THEN Len(entries) ELSE 0])
             /\ IF r = "throw"
                THEN /\ pc' = "folder_return"
                     /\ stack' = stack
                ELSE IF Len(entries) = 0
                THEN /\ pc' = "folder_item"
                     /\ stack' = stack
                ELSE /\ stack' = SetTop(stack, [Top EXCEPT
                                                  !.items = @ \o entries,
                                                  !.offset = @ + Len(entries)])
                     /\ pc' = "folder_item"
    /\ UNCHANGED <<config, idx, file, rep, doc, documents, outcome, demand, yielded,
                   attempted, obsVars, lookups>>
    /\ inflight = 1 /\ inflight' = 0

\* faulty variant: a failed listing of a subfolder ends its parent's loop too
FolderPageFailureSpreads ==
    /\ Running /\ pc = "folder_page"
    /\ \E r \in FolderResponsesAt(svc, Top.offset) :
         LET entries == FolderPageOf(Top.folderId, flatSize, Top.offset, limit)
         IN  /\ folderCalls' = Append(folderCalls,
                   [folderId |-> Top.folderId, offset |-> Top.offset, limit |-> limit,
                    answer |-> r, received |-> IF r = "ok" THEN Len(entries) ELSE 0])
             /\ IF r = "throw"
                THEN /\ pc' = "folder_return"
                     /\ stack' = IF Len(stack) > 1 THEN Pop(stack) ELSE stack
                ELSE IF Len(entries) = 0
                THEN /\ pc' = "folder_item"
                     /\ stack' = stack
                ELSE /\ stack' = SetTop(stack, [Top EXCEPT
                                                  !.items = @ \o entries,
                                                  !.offset = @ + Len(entries)])
                     /\ pc' = IF Len(entries) < limit THEN "folder_item" ELSE "folder_page"
    /\ UNCHANGED <<config, idx, file, rep, doc, documents, outcome, demand, yielded,
                   attempted, obsVars, lookups>>
    /\ inflight = 1 /\ inflight' = 0

\* faulty variant: the next page starts at the last entry received
FolderPageOverlaps ==
    /\ Running /\ pc = "folder_page"
    /\ \E r \in FolderResponsesAt(svc, Top.offset) :
         LET entries == FolderPageOf(Top.folderId, flatSize, Top.offset, limit)
         IN  /\ folderCalls' = Append(folderCalls,
                   [folderId |-> Top.folderId, offset |-> Top.offset, limit |-> limit,
                    answer |-> r, received |-> IF r = "ok" THEN Len(entries) ELSE 0])
             /\ IF r = "throw"
                THEN /\ pc' = "folder_return"
                     /\ stack' = stack
                ELSE IF Len(entries) = 0
                THEN /\ pc' = "folder_item"
                     /\ stack' = stack
                ELSE /\ stack' = SetTop(stack, [Top EXCEPT
                                                  !.items = @ \o entries,
                                                  !.offset = @ + Len(entries) - 1])
                     /\ pc' = IF Len(entries) < limit THEN "folder_item" ELSE "folder_page"
    /\ UNCHANGED <<config, idx, file, rep, doc, documents, outcome, demand, yielded,
                   attempted, obsVars, lookups>>
    /\ inflight = 1 /\ inflight' = 0

\* one iteration of getFolderItems' loop: the page request, and the end of
\* the loop on an empty or short page; a failure is caught by loadFromFolder
FolderPage ==
    /\ Running /\ pc = "folder_page"
    /\ \E r \in FolderResponsesAt(svc, Top.offset) :
         LET entries == FolderPageOf(Top.folderId, flatSize, Top.offset, limit)
         IN  /\ folderCalls' = Append(folderCalls,
                   [folderId |-> Top.folderId, offset |-> Top.offset, limit |-> limit,
                    answer |-> r, received |-> IF r = "ok" THEN Len(entries) ELSE 0])
             /\ IF r = "throw"
                THEN /\ pc' = "folder_return"
                     /\ stack' = stack
                ELSE IF Len(entries) = 0
                THEN /\ pc' = "folder_item"
                     /\ stack' = stack
                ELSE /\ stack' = SetTop(stack, [Top EXCEPT
                                                  !.items = @ \o entries,
                                                  !.offset = @ + Len(entries)])
                     /\ pc' = IF Len(entries) < limit THEN "folder_item" ELSE "folder_page"
    /\ UNCHANGED <<config, idx, file, rep, doc, documents, outcome, demand, yielded,
                   attempted, obsVars, lookups>>
    /\ inflight = 1 /\ inflight' = 0

\* faulty variant: subfolders are entered whatever recursive says
FolderItemEntersAll ==
    /\ Running /\ pc = "folder_item"
    /\ IF Top.pos > Len(Top.items)
       THEN /\ pc' = "folder_return"
            /\ UNCHANGED <<stack, file, rep, doc, attempted, obsVars>>
       ELSE LET item == Top.items[Top.pos]
            IN  IF item.type = "file"
                THEN /\ CallLoadFileById(item.id)
                     /\ stack' = stack
                ELSE IF item.type = "folder"
                THEN /\ pc' = "folder_client"
                     /\ stack' = Append(stack, NewFrame(item.id))
                     /\ UNCHANGED <<file, rep, doc, attempted, obsVars>>
                ELSE /\ pc' = "folder_item"
                     /\ stack' = SetTop(stack, [Top EXCEPT !.pos = @ + 1])
                     /\ UNCHANGED <<file, rep, doc, attempted, obsVars>>
    /\ UNCHANGED <<config, idx, documents, outcome, demand, yielded, folderCalls, lookups>>
    /\ UNCHANGED inflight

\* one iteration of "for (const item of items)" in loadFromFolder, or its end
FolderItem ==
    /\ Running /\ pc = "folder_item"
    /\ IF Top.pos > Len(Top.items)
       THEN /\ pc' = "folder_return"
            /\ UNCHANGED <<stack, file, rep, doc, attempted, obsVars>>
       ELSE LET item == Top.items[Top.pos]
            IN  IF item.type = "file"
                THEN /\ CallLoadFileById(item.id)
                     /\ stack' = stack
                ELSE IF item.type = "folder" /\ recursive
                THEN /\ pc' = "folder_client"
                     /\ stack' = Append(stack, NewFrame(item.id))
                     /\ UNCHANGED <<file, rep, doc, attempted, obsVars>>
                ELSE /\ pc' = "folder_item"
                     /\ stack' = SetTop(stack, [Top EXCEPT !.pos = @ + 1])
                     /\ UNCHANGED <<file, rep, doc, attempted, obsVars>>
    /\ UNCHANGED <<config, idx, documents, outcome, demand, yielded, folderCalls, lookups>>
    /\ UNCHANGED inflight

\* loadFileById has returned to loadFromFolder's loop
FolderFileReturn ==
    /\ Running /\ pc = "file_return" /\ stack # << >> /\ entry = "load"
    /\ pc' = "folder_item"
    /\ stack' = SetTop(stack, [Top EXCEPT
                                 !.pos = @ + 1,
                                 !.docs = IF doc = NoDocument THEN @ ELSE Append(@, doc)])
    /\ ForgetFile
    /\ UNCHANGED <<config, idx, documents, outcome, demand, yielded, attempted,
                   folderCalls, lookups>>
    /\ UNCHANGED inflight

\* faulty variant: the documents of a subfolder are put before those of the
\* folder that holds it
FolderReturnInFront ==
    /\ Running /\ pc = "folder_return"
    /\ IF Len(stack) = 1
       THEN /\ documents' = documents \o Top.docs
            /\ stack' = << >>
            /\ End("returned")
       ELSE /\ stack' = SetTop(Pop(stack),
                               [stack[Len(stack) - 1] EXCEPT
                                  !.pos = @ + 1,
                                  !.docs = Top.docs \o @])
            /\ pc' = "folder_item"
            /\ UNCHANGED <<documents, outcome, demand>>
    /\ UNCHANGED <<config, idx, file, rep, doc, yielded, attempted, obsVars,
                   folderCalls, lookups>>
    /\ UNCHANGED inflight

\* loadFromFolder returns its documents: to load(), or to the loadFromFolder
\* that called it, which pushes them and goes on with its next item
FolderReturn ==
    /\ Running /\ pc = "folder_return"
    /\ IF Len(stack) = 1
       THEN /\ documents' = documents \o Top.docs
            /\ stack' = << >>
            /\ End("returned")
       ELSE /\ stack' = SetTop(Pop(stack),
                               [stack[Len(stack) - 1] EXCEPT
                                  !.pos = @ + 1,
                                  !.docs = @ \o Top.docs])
            /\ pc' = "folder_item"
            /\ UNCHANGED <<documents, outcome, demand>>
    /\ UNCHANGED <<config, idx, file, rep, doc, yielded, attempted, obsVars,
                   folderCalls, lookups>>
    /\ UNCHANGED inflight

(***************************************************************************)
(* lazyLoad(), iterateFolderFiles and getFolderItemsGenerator              *)
(***************************************************************************)
\* the consumer calls next() on the generator
Pull ==
    /\ entry = "lazyLoad" /\ outcome = "running" /\ ~demand
    /\ demand' = TRUE
    /\ UNCHANGED <<config, pc, idx, stack, file, rep, doc, documents, outcome,
                   yielded, attempted, obsVars, folderCalls, lookups>>
    /\ UNCHANGED inflight

LazyStart ==
    /\ Running /\ pc = "start" /\ entry = "lazyLoad"
    /\ IF boxFileIds # NoFileIds /\ Len(boxFileIds) > 0
       THEN /\ pc' = "ids_next"
            /\ idx' = 1
            /\ UNCHANGED <<outcome, demand>>
       ELSE IF Truthy(boxFolderId)
       THEN /\ pc' = "lazy_client"
            /\ UNCHANGED <<idx, outcome, demand>>
       ELSE /\ End("threw")
            /\ UNCHANGED idx
    /\ UNCHANGED <<config, stack, file, rep, doc, documents, yielded, attempted,
                   obsVars, folderCalls, lookups>>
    /\ UNCHANGED inflight

\* const client = await this.getClient() in lazyLoad
LazyGetClient ==
    /\ Running /\ pc = "lazy_client"
    /\ IF auth = "badauth"
       THEN /\ End("threw")
            /\ stack' = stack
       ELSE /\ pc' = "gen_page"
            /\ stack' = << NewFrame(boxFolderId) >>
            /\ UNCHANGED <<outcome, demand>>
    /\ UNCHANGED <<config, idx, file, rep, doc, documents, yielded, attempted,
                   obsVars, folderCalls, lookups>>
    /\ UNCHANGED inflight

\* faulty variant: the last, short page of a folder ends the generator before its entries are yielded
GenPageDropsShortPage ==
    /\ Running /\ pc = "gen_page"
    /\ \E r \in FolderResponsesAt(svc, Top.offset) :
         LET entries == FolderPageOf(Top.folderId, flatSize, Top.offset, limit)
         IN  /\ folderCalls' = Append(folderCalls,
                   [folderId |-> Top.folderId, offset |-> Top.offset, limit |-> limit,
                    answer |-> r, received |-> IF r = "ok" THEN Len(entries) ELSE 0])
             /\ IF r = "throw" \/ Len(entries) < limit
                THEN /\ pc' = "gen_return"
                     /\ stack' = stack
                ELSE /\ pc' = "gen_item"
                     /\ stack' = SetTop(stack, [Top EXCEPT !.items = entries, !.pos = 1])
    /\ UNCHANGED <<config, idx, file, rep, doc, documents, outcome, demand, yielded,
                   attempted, obsVars, lookups>>
    /\ inflight = 1 /\ inflight' = 0

\* one page request of getFolderItemsGenerator; a failure or an empty page
\* ends the generator
GenPage ==
    /\ Running /\ pc = "gen_page"
    /\ \E r \in FolderResponsesAt(svc, Top.offset) :
         LET entries == FolderPageOf(Top.folderId, flatSize, Top.offset, limit)
         IN  /\ folderCalls' = Append(folderCalls,
                   [folderId |-> Top.folderId, offset |-> Top.offset, limit |-> limit,
                    answer |-> r, received |-> IF r = "ok" THEN Len(entries) ELSE 0])
             /\ IF r = "throw" \/ Len(entries) = 0
                THEN /\ pc' = "gen_return"
                     /\ stack' = stack
                ELSE /\ pc' = "gen_item"
                     /\ stack' = SetTop(stack, [Top EXCEPT !.items = entries, !.pos = 1])
    /\ UNCHANGED <<config, idx, file, rep, doc, documents, outcome, demand, yielded,
                   attempted, obsVars, lookups>>
    /\ inflight = 1 /\ inflight' = 0

\* faulty variant: the generator goes on to the next entry without being asked
GenItemAhead ==
    /\ outcome = "running" /\ pc = "gen_item"
    /\ IF Top.pos > Len(Top.items)
       THEN /\ stack' = SetTop(stack, [Top EXCEPT !.offset = @ + Len(Top.items),
                                                  !.items = << >>, !.pos = 1])
            /\ pc' = IF Len(Top.items) < limit THEN "gen_return" ELSE "gen_page"
            /\ UNCHANGED <<file, rep, doc, attempted, obsVars>>
       ELSE LET item == Top.items[Top.pos]
            IN  IF item.type = "file"
                THEN /\ CallLoadFileById(item.id)
                     /\ stack' = stack
                ELSE IF item.type = "folder" /\ recursive
                THEN /\ pc' = "gen_page"
                     /\ stack' = Append(stack, NewFrame(item.id))
                     /\ UNCHANGED <<file, rep, doc, attempted, obsVars>>
                ELSE /\ pc' = "gen_item"
                     /\ stack' = SetTop(stack, [Top EXCEPT !.pos = @ + 1])
                     /\ UNCHANGED <<file, rep, doc, attempted, obsVars>>
    /\ UNCHANGED <<config, idx, documents, outcome, demand, yielded, folderCalls, lookups>>
    /\ UNCHANGED inflight

\* the next entry of the current page reaches iterateFolderFiles: a file id
\* is handed to lazyLoad, which calls loadFileById; a folder is entered when
\* recursive; after the page's last entry the offset advances
GenItem ==
    /\ Running /\ pc = "gen_item"
    /\ IF Top.pos > Len(Top.items)
       THEN /\ stack' = SetTop(stack, [Top EXCEPT !.offset = @ + Len(Top.items),
                                                  !.items = << >>, !.pos = 1])
            /\ pc' = IF Len(Top.items) < limit THEN "gen_return" ELSE "gen_page"
            /\ UNCHANGED <<file, rep, doc, attempted, obsVars>>
       ELSE LET item == Top.items[Top.pos]
            IN  IF item.type = "file"
                THEN /\ CallLoadFileById(item.id)
                     /\ stack' = stack
                ELSE IF item.type = "folder" /\ recursive
                THEN /\ pc' = "gen_page"
                     /\ stack' = Append(stack, NewFrame(item.id))
                     /\ UNCHANGED <<file, rep, doc, attempted, obsVars>>
                ELSE /\ pc' = "gen_item"
                     /\ stack' = SetTop(stack, [Top EXCEPT !.pos = @ + 1])
                     /\ UNCHANGED <<file, rep, doc, attempted, obsVars>>
    /\ UNCHANGED <<config, idx, documents, outcome, demand, yielded, folderCalls, lookups>>
    /\ UNCHANGED inflight

\* loadFileById has returned to lazyLoad's loop over the folder's files:
\* the Document is yielded to the consumer
GenFileReturn ==
    /\ Running /\ pc = "file_return" /\ stack # << >> /\ entry = "lazyLoad"
    /\ pc' = "gen_item"
    /\ stack' = SetTop(stack, [Top EXCEPT !.pos = @ + 1])
    /\ IF doc = NoDocument
       THEN UNCHANGED <<yielded, demand>>
       ELSE /\ yielded' = Append(yielded, doc)
            /\ demand' = FALSE
    /\ ForgetFile
    /\ UNCHANGED <<config, idx, documents, outcome, attempted, folderCalls, lookups>>
    /\ UNCHANGED inflight

\* a folder's generator is exhausted: iterateFolderFiles goes on with the
\* parent's next entry, or lazyLoad completes
GenReturn ==
    /\ Running /\ pc = "gen_return"
    /\ IF Len(stack) = 1
       THEN /\ stack' = << >>
            /\ End("returned")
       ELSE /\ stack' = SetTop(Pop(stack),
                               [stack[Len(stack) - 1] EXCEPT !.pos = @ + 1])
            /\ pc' = "gen_item"
            /\ UNCHANGED <<outcome, demand>>
    /\ UNCHANGED <<config, idx, file, rep, doc, documents, yielded, attempted,
                   obsVars, folderCalls, lookups>>
    /\ UNCHANGED inflight

(***************************************************************************)
(* Initial states: a loader as its constructor leaves it, about to run     *)
(* load() or lazyLoad() against one of the services.                       *)
(***************************************************************************)
RECURSIVE SeqsUpTo(_, _)
SeqsUpTo(S, n) ==
    IF n = 0 THEN {<< >>}
    ELSE LET shorter == SeqsUpTo(S, n - 1)
         IN  shorter \cup {Append(s, x) : s \in shorter, x \in S}

IsPermutationFree(s) == \A i, j \in 1..Len(s) : i # j => s[i] # s[j]

\* the id lists tried: lists of distinct ids, up to MaxIds long
IdLists == {s \in SeqsUpTo({F11, F12, F13, F14}, MaxIds) : IsPermutationFree(s)}

\* the sizes of the flat folder tried: around the page size and its multiples
FlatSizes == {0, 1, 99, 100, 101, 150, 199} \cup (200..(200 + MaxExtra))

\* nothing has run yet
InitLocals ==
    /\ idx = 0
    /\ stack = << >>
    /\ file = NoFile
    /\ rep = NoRep
    /\ doc = NoDocument
    /\ documents = << >>
    /\ outcome = "running"
    /\ demand = FALSE
    /\ yielded = << >>
    /\ attempted = << >>
    /\ heard = << >>
    /\ said = NoSaid
    /\ delays = << >>
    /\ emptyDelays = << >>
    /\ calls = NoCalls
    /\ folderCalls = << >>
    /\ lookups = << >>
    /\ fetched = << >>
    /\ fault = NoFault
    /\ caught = NoCaught
    /\ inflight = 0
    /\ past = << >>

InitLoader ==
    /\ pc = "start"
    /\ InitLocals

\* one file id, every answer of the service
InitOneFile ==
    /\ svc = "full"
    /\ boxFileIds = << F11 >>
    /\ boxFolderId = Absent
    /\ recursive = FALSE
    /\ characterLimit \in {NoNumber, <<10>>}
    /\ auth = "client"
    /\ flatSize = 0

\* a list of file ids, or the one id of the file whose name starts with
\* U+0130; a short list also with a folder id, or with a characterLimit that
\* is no positive integer
InitIdList ==
    /\ svc = "basic"
    /\ boxFileIds \in IdLists \cup {<< F17 >>}
    /\ \/ boxFolderId = Absent /\ characterLimit \in {NoNumber, <<10>>}
       \/ Len(boxFileIds) <= 1 /\ boxFolderId = D22 /\ characterLimit = NoNumber
       \/ Len(boxFileIds) = 1 /\ boxFolderId = Absent
            /\ characterLimit \in {<<0>>, <<-1>>, <<1>>}
    /\ recursive = FALSE
    /\ auth \in {"auth", "badauth"}
    /\ flatSize = 0

\* a folder tree
InitTree ==
    /\ svc = "basic"
    /\ boxFileIds = NoFileIds
    /\ boxFolderId \in {D20, D21}
    /\ recursive \in BOOLEAN
    /\ characterLimit = NoNumber
    /\ auth \in {"client", "badauth"}
    /\ flatSize = 0

\* a flat folder of many files
InitFlat ==
    /\ svc = "gone"
    /\ boxFileIds = NoFileIds
    /\ boxFolderId = D30
    /\ recursive \in BOOLEAN
    /\ characterLimit = NoNumber
    /\ auth = "client"
    /\ flatSize \in FlatSizes

\* the loader stands at a remote call: retrieveToken, getFileById (metadata
\* or representation listing), getFolderItems, or a fetch
AtRemoteCall ==
    /\ pc \in {"file_token", "file_meta", "rep_list", "rep_poll", "info_fetch",
                "content_fetch", "folder_page", "gen_page"}
    /\ pc = "info_fetch" => Truthy(rep.workingRep.infoUrl)

\* faulty variant: the call is issued without the previous one being awaited
IssueAhead ==
    /\ Running /\ AtRemoteCall
    /\ inflight < 2
    /\ inflight' = inflight + 1
    /\ UNCHANGED <<config, pc, idx, stack, file, rep, doc, documents, outcome, demand,
                   yielded, attempted, obsVars, folderCalls, lookups>>

\* the request of "await <remote call>" is sent; the action that models the
\* call takes its answer
Issue ==
    /\ Running /\ AtRemoteCall
    /\ inflight = 0
    /\ inflight' = inflight + 1
    /\ UNCHANGED <<config, pc, idx, stack, file, rep, doc, documents, outcome, demand,
                   yielded, attempted, obsVars, folderCalls, lookups>>

Init ==
    /\ entry \in {"load", "lazyLoad"}
    /\ InitLoader
    /\ probe = NoProbe
    /\ options = NoOptions
    /\ (InitOneFile \/ InitIdList \/ InitTree \/ InitFlat)

Next ==
    \/ LoadStart \/ IdsNext \/ IdsFileReturn
    \/ FileGetClient \/ FileRetrieveToken \/ FileGetInfo
    \/ RepList \/ RepDelay \/ RepPoll \/ InfoFetch \/ InfoBody
    \/ ContentFetch \/ ContentBody \/ EmptyDelay
    \/ FolderGetClient \/ FolderPage \/ FolderItem \/ FolderFileReturn \/ FolderReturn
    \/ Pull \/ LazyStart \/ LazyGetClient
    \/ GenPage \/ GenItem \/ GenFileReturn \/ GenReturn
    \/ Issue

Spec == Init /\ [][Next]_vars

\* Every awaited promise settles: a remote call is answered, a timer fires,
\* and the consumer of lazyLoad() goes on asking until the generator is done.
InitLive ==
    /\ entry \in {"load", "lazyLoad"}
    /\ InitLoader
    /\ probe = NoProbe
    /\ options = NoOptions
    /\ \/ InitOneFile /\ characterLimit = NoNumber /\ entry = "load"
       \/ InitIdList /\ Len(boxFileIds) <= 2 /\ characterLimit = NoNumber
       \/ InitTree /\ boxFolderId = D21
       \/ InitFlat /\ ~recursive /\ flatSize \in {100, 101}

SpecLive == InitLive /\ [][Next]_vars /\ WF_vars(Next)

(***************************************************************************)
(* getRepresentationTypeForFilename on its own: file names made of a stem, *)
(* a dot and an extension in some letter case, or of a stem alone.         *)
(***************************************************************************)
ToUpperChar(c) ==
    IF \E i \in 1..Len(LowerChars) : LowerChars[i] = c
    THEN UpperChars[CHOOSE i \in 1..Len(LowerChars) : LowerChars[i] = c]
    ELSE c

InCase(casing, s) ==
    CASE casing = "upper" -> [i \in 1..Len(s) |-> ToUpperChar(s[i])]
      [] casing = "title" -> [i \in 1..Len(s) |-> IF i = 1 THEN ToUpperChar(s[i]) ELSE s[i]]
      [] OTHER -> s

ProbeStems == { <<"a">>, <<"a", ".", "b">>, << >> }

ProbeExts ==
    { <<"d", "o", "c", "x">>, <<"p", "p", "t", "x">>, <<"x", "l", "s">>,
      <<"x", "l", "s", "x">>, <<"x", "l", "s", "m">>, <<"g", "d", "o", "c">>,
      <<"g", "s", "l", "i", "d", "e">>, <<"g", "s", "l", "i", "d", "e", "s">>,
      <<"g", "s", "h", "e", "e", "t">>, <<"p", "d", "f">>,
      <<"t", "x", "t">>, <<"d", "o", "c">>, <<"m", "d">>, <<"p", "d">>,
      <<"p", "d", "f", "x">>, <<"x", "l">>, <<"g", "s", "h", "e", "e", "t", "s">>,
      << >> }

ProbeBareNames == { <<"a">>, << >>, <<"p", "d", "f">>, <<"D", "O", "C", "X">> }

InitProbe ==
    /\ InitLocals
    /\ pc = "probe"
    /\ boxFileIds = NoFileIds /\ boxFolderId = Absent /\ recursive = FALSE
    /\ characterLimit = NoNumber /\ auth = "client" /\ entry = "load"
    /\ svc = "gone" /\ flatSize = 0
    /\ options = NoOptions
    /\ \/ \E st \in ProbeStems, e \in ProbeExts, c \in {"lower", "upper", "title"} :
             probe = [stem |-> st, ext |-> e, casing |-> c,
                      name |-> st \o <<".">> \o InCase(c, e), kind |-> Absent]
       \/ \E st \in ProbeBareNames :
             probe = [stem |-> st, ext |-> Absent, casing |-> "lower",
                      name |-> st, kind |-> Absent]

\* const repType = this.getRepresentationTypeForFilename(fileName)
ChooseKind ==
    /\ pc = "probe" /\ probe.kind = Absent
    /\ probe' = [probe EXCEPT !.kind = getRepresentationTypeForFilename(probe.name)]
    /\ UNCHANGED <<boxFileIds, boxFolderId, recursive, characterLimit, auth, entry, svc,
                   flatSize, pc, idx, stack, file, rep, doc, documents, outcome, demand,
                   yielded, attempted, heard, said, delays, emptyDelays, calls, folderCalls,
                   lookups, fetched, fault, caught, options>>
    /\ UNCHANGED <<inflight, past>>

NextProbe == ChooseKind

SpecProbe == InitProbe /\ [][NextProbe]_vars

(***************************************************************************)
(* new BoxLoader(options)                                                  *)
(***************************************************************************)
\* the options tried: boxAuth is absent, or a BoxAuth whose getClient()
\* works ("auth") or throws ("badauth"); boxClient is absent or a client;
\* BOX_DEVELOPER_TOKEN is set or not
OptionSets ==
    [boxAuth : {"undefined", "auth", "badauth"},
     boxClient : {"undefined", "client"},
     envToken : BOOLEAN,
     boxFileIds : {NoFileIds, << >>, << F11 >>},
     boxFolderId : {Absent, << >>, D20},
     recursive : {"undefined", "false", "true"},
     characterLimit : {NoNumber, <<10>>}]

InitNew ==
    /\ InitLocals
    /\ pc = "new"
    /\ boxFileIds = NoFileIds /\ boxFolderId = Absent /\ recursive = FALSE
    /\ characterLimit = NoNumber /\ auth = "none" /\ entry = "load"
    /\ svc = "basic" /\ flatSize = 0
    /\ probe = NoProbe
    /\ options \in OptionSets

\* faulty variant: the constructor does not look at boxFileIds and boxFolderId
ConstructorUnchecked ==
    /\ pc = "new"
    /\ LET o == options
           env == o.boxAuth = "undefined" /\ o.boxClient = "undefined"
       IN  IF env /\ ~o.envToken
           THEN /\ End("threw")
                /\ UNCHANGED <<boxFileIds, boxFolderId, recursive, characterLimit, auth>>
           ELSE /\ auth' = IF o.boxClient # "undefined" THEN "client"
                           ELSE IF env THEN "envauth" ELSE o.boxAuth
                /\ boxFileIds' = o.boxFileIds
                /\ boxFolderId' = o.boxFolderId
                /\ recursive' = (o.recursive = "true")
                /\ characterLimit' = o.characterLimit
                /\ pc' = "start"
                /\ UNCHANGED <<outcome, demand>>
    /\ UNCHANGED <<entry, svc, flatSize, probe, options, idx, stack, file, rep, doc,
                   documents, yielded, attempted, obsVars, folderCalls, lookups>>
    /\ UNCHANGED <<inflight, past>>

\* faulty variant: getClient() asks boxAuth first
ConstructorAuthFirst ==
    /\ pc = "new"
    /\ LET o == options
           env == o.boxAuth = "undefined" /\ o.boxClient = "undefined"
       IN  IF env /\ ~o.envToken
           THEN /\ End("threw")
                /\ UNCHANGED <<boxFileIds, boxFolderId, recursive, characterLimit, auth>>
           ELSE IF o.boxFileIds = NoFileIds /\ ~Truthy(o.boxFolderId)
           THEN /\ End("threw")
                /\ UNCHANGED <<boxFileIds, boxFolderId, recursive, characterLimit, auth>>
           ELSE /\ auth' = IF o.boxAuth # "undefined" THEN o.boxAuth
                           ELSE IF env THEN "envauth" ELSE "client"
                /\ boxFileIds' = o.boxFileIds
                /\ boxFolderId' = o.boxFolderId
                /\ recursive' = (o.recursive = "true")
                /\ characterLimit' = o.characterLimit
                /\ pc' = "start"
                /\ UNCHANGED <<outcome, demand>>
    /\ UNCHANGED <<entry, svc, flatSize, probe, options, idx, stack, file, rep, doc,
                   documents, yielded, attempted, obsVars, folderCalls, lookups>>
    /\ UNCHANGED <<inflight, past>>

\* constructor(options): throws, or sets the loader's fields.  getClient()
\* uses boxClient when there is one, so boxAuth only matters without it.
Constructor ==
    /\ pc = "new"
    /\ LET o == options
           env == o.boxAuth = "undefined" /\ o.boxClient = "undefined"
       IN  IF env /\ ~o.envToken
           THEN /\ End("threw")
                /\ UNCHANGED <<boxFileIds, boxFolderId, recursive, characterLimit, auth>>
           ELSE IF o.boxFileIds = NoFileIds /\ ~Truthy(o.boxFolderId)
           THEN /\ End("threw")
                /\ UNCHANGED <<boxFileIds, boxFolderId, recursive, characterLimit, auth>>
           ELSE /\ auth' = IF o.boxClient # "undefined" THEN "client"
                           ELSE IF env THEN "envauth" ELSE o.boxAuth
                /\ boxFileIds' = o.boxFileIds
                /\ boxFolderId' = o.boxFolderId
                /\ recursive' = (o.recursive = "true")
                /\ characterLimit' = o.characterLimit
                /\ pc' = "start"
                /\ UNCHANGED <<outcome, demand>>
    /\ UNCHANGED <<entry, svc, flatSize, probe, options, idx, stack, file, rep, doc,
                   documents, yielded, attempted, obsVars, folderCalls, lookups>>
    /\ UNCHANGED <<inflight, past>>

NextNew == Constructor

SpecNew == InitNew /\ [][NextNew]_vars

(***************************************************************************)
(* new BoxLoader(options) followed by load() or lazyLoad() up to the point *)
(* where getClient() has answered.                                         *)
(***************************************************************************)
InitClient ==
    /\ InitLocals
    /\ pc = "new"
    /\ boxFileIds = NoFileIds /\ boxFolderId = Absent /\ recursive = FALSE
    /\ characterLimit = NoNumber /\ auth = "none"
    /\ entry \in {"load", "lazyLoad"}
    /\ svc = "basic" /\ flatSize = 0
    /\ probe = NoProbe
    /\ options \in OptionSets

NextClient ==
    \/ Constructor
    \/ LoadStart \/ IdsNext \/ FileGetClient \/ FolderGetClient
    \/ Pull \/ LazyStart \/ LazyGetClient

SpecClient == InitClient /\ [][NextClient]_vars

(***************************************************************************)
(* utilities.ts: sanitizeFolderId on its own.  A folder id is a string or  *)
(* a number.                                                               *)
(***************************************************************************)
StringId(s) == [type |-> "string", value |-> s]
NumberId(n) == [type |-> "number", value |-> n]

\* Number.prototype.toString() of an integer
NumberToString(n) == IF n < 0 THEN <<"-">> \o NatToString(-n) ELSE NatToString(n)

\* folderId.toString()
IdToString(folderId) ==
    IF folderId.type = "number" THEN NumberToString(folderId.value) ELSE folderId.value

S_root == <<"r", "o", "o", "t">>

\* faulty variant: 'root' is recognised in any letter case
sanitizeFolderIdAnyCase(folderId) ==
    IF \/ folderId.type = "string" /\ ToLowerCase(folderId.value) = S_root
       \/ folderId.type = "string" /\ folderId.value = <<"0">>
       \/ folderId.type = "number" /\ folderId.value = 0
    THEN <<"0">>
    ELSE IdToString(folderId)

sanitizeFolderId(folderId) ==
    IF \/ folderId.type = "string" /\ folderId.value = S_root
       \/ folderId.type = "string" /\ folderId.value = <<"0">>
       \/ folderId.type = "number" /\ folderId.value = 0
    THEN <<"0">>
    ELSE IdToString(folderId)

FolderIdStrings ==
    { <<"r", "o", "o", "t">>,
      <<"0">>,
      <<"R", "O", "O", "T">>,
      <<"R", "o", "o", "t">>,
      <<" ", "r", "o", "o", "t">>,
      <<"r", "o", "o", "t", " ">>,
      <<"0", "0">>,
      <<"0", ".", "0">>,
      <<"-", "0">>,
      <<" ", "0">>,
      <<>>,
      <<"1">>,
      <<"1", "0">>,
      <<"1", "2", "3", "4", "5", "6">>,
      <<"o">>,
      <<"r">>,
      <<"r", "o", "o", "t", "s">>,
      <<"0", " ">>,
      <<"+", "0">>,
      <<"0", "x", "0">>,
      <<"n", "u", "l", "l">>,
      <<"f", "a", "l", "s", "e">>,
      <<"r", "o", "t">> }

FolderIdNumbers == (-12..40) \cup {100, 101, 1000, 123456, -123456}

FolderIdInputs ==
    {StringId(s) : s \in FolderIdStrings} \cup {NumberId(n) : n \in FolderIdNumbers}

(***************************************************************************)
(* utilities.ts: isTextFile on its own.                                    *)
(***************************************************************************)
textExtensions ==
    { <<".", "t", "x", "t">>,
      <<".", "m", "d">>,
      <<".", "j", "s", "o", "n">>,
      <<".", "x", "m", "l">>,
      <<".", "c", "s", "v">>,
      <<".", "h", "t", "m", "l">>,
      <<".", "h", "t", "m">>,
      <<".", "j", "s">>,
      <<".", "t", "s">>,
      <<".", "p", "y">>,
      <<".", "j", "a", "v", "a">>,
      <<".", "c", "p", "p">>,
      <<".", "c">>,
      <<".", "h">>,
      <<".", "c", "s", "s">>,
      <<".", "s", "c", "s", "s">>,
      <<".", "s", "a", "s", "s">>,
      <<".", "l", "e", "s", "s">>,
      <<".", "s", "q", "l">>,
      <<".", "y", "a", "m", "l">>,
      <<".", "y", "m", "l">>,
      <<".", "t", "o", "m", "l">>,
      <<".", "i", "n", "i">>,
      <<".", "c", "f", "g">>,
      <<".", "c", "o", "n", "f">>,
      <<".", "l", "o", "g">>,
      <<".", "r", "t", "f">> }

isTextFile(filename) == FileExtension(filename) \in textExtensions

TextStems ==
    { <<"a">>, <<"a", ".", "b">>, << >>, <<"R", "E", "A", "D", "M", "E">>, <<"i", "m", "a", "g", "e">>,
      <<C_IDot, "s">>, <<"a", ".", C_IDot>>, <<"a", C_IDot, C_IDot>>, <<".", "t", "x", "t">> }

TextExts ==
    { <<"t", "x", "t">>, <<"m", "d">>, <<"j", "s", "o", "n">>, <<"c", "s", "s">>, <<"j", "s">>, <<"j", "p", "g">>, <<"m", "p", "4">>, <<"z", "i", "p">>, <<"p", "d", "f">>, <<"i", "n", "i">>, <<"d", "o", "c", "x">>, <<"c">>, <<>>, <<"t", "x">>, <<"t", "x", "t", "x">>, <<"t", "a", "r">> }

TextBareNames ==
    { <<"f", "i", "l", "e", "n", "a", "m", "e">>, << >>, <<"t", "x", "t">>, <<"M", "a", "k", "e", "f", "i", "l", "e">>, <<"m", "d">>, <<"j", "s", "o", "n">>, <<"J", "S">>,
      << C_IDot >>, <<C_IDot, "t", "x", "t">>, <<C_IDot, "m", "d">>,
      <<"c", "a", "f", "U+00C9", ".", "T", "X", "T">>, <<"a", ".", "M", C_Kelvin, "V">> }

UtilCalls ==
    {[fn |-> "sanitizeFolderId", arg |-> a, out |-> << >>] : a \in FolderIdInputs}
    \cup {[fn |-> "isTextFile", arg |-> st \o <<".">> \o InCase(c, e), out |-> << >>] :
             st \in TextStems, e \in TextExts, c \in {"lower", "upper", "title"}}
    \cup {[fn |-> "isTextFile", arg |-> n, out |-> << >>] : n \in TextBareNames}

InitUtil ==
    /\ InitLocals
    /\ pc = "util"
    /\ boxFileIds = NoFileIds /\ boxFolderId = Absent /\ recursive = FALSE
    /\ characterLimit = NoNumber /\ auth = "client" /\ entry = "load"
    /\ svc = "gone" /\ flatSize = 0
    /\ options = NoOptions
    /\ probe \in UtilCalls

\* sanitizeFolderId(folderId)
CallSanitizeFolderId ==
    /\ pc = "util" /\ probe.fn = "sanitizeFolderId" /\ probe.out = << >>
    /\ probe' = [probe EXCEPT !.out = << sanitizeFolderId(probe.arg) >>]
    /\ UNCHANGED <<loader, entry, svc, flatSize, options, pc, idx, stack, file, rep, doc,
                   documents, outcome, demand, yielded, attempted, obsVars, folderCalls,
                   lookups, inflight, past>>

\* isTextFile(filename)
CallIsTextFile ==
    /\ pc = "util" /\ probe.fn = "isTextFile" /\ probe.out = << >>
    /\ probe' = [probe EXCEPT !.out = << isTextFile(probe.arg) >>]
    /\ UNCHANGED <<loader, entry, svc, flatSize, options, pc, idx, stack, file, rep, doc,
                   documents, outcome, demand, yielded, attempted, obsVars, folderCalls,
                   lookups, inflight, past>>

NextUtil == CallSanitizeFolderId \/ CallIsTextFile

SpecUtil == InitUtil /\ [][NextUtil]_vars

(***************************************************************************)
(* A further invocation on the same loader.  load() and lazyLoad() keep    *)
(* their position in locals (the for-of iterator over this.boxFileIds, the *)
(* documents array, "let offset = 0" of each getFolderItemsGenerator) and  *)
(* assign no field of the loader: a new call starts with new locals.       *)
(***************************************************************************)
\* the earlier invocation can go no further: load() has returned or thrown,
\* or the consumer of lazyLoad() pulls no more (at the end, or before it)
Over ==
    \/ outcome # "running"
    \/ entry = "lazyLoad" /\ ~demand /\ inflight = 0

\* faulty variant: the new call goes on with the generator of the earlier one
InvokeResuming ==
    /\ pc \notin {"new", "probe"}
    /\ past = << >>
    /\ Over
    /\ past' = Append(past, [entry |-> entry,
                             attempted |-> attempted,
                             received |-> [i \in 1..Len(documents \o yielded) |->
                                             (documents \o yielded)[i].metadata.file_id]])
    /\ entry' = "lazyLoad"
    /\ pc' = IF entry = "lazyLoad" /\ outcome = "running" THEN pc ELSE "start"
    /\ idx' = IF entry = "lazyLoad" /\ outcome = "running" THEN idx ELSE 0
    /\ stack' = IF entry = "lazyLoad" /\ outcome = "running" THEN stack ELSE << >>
    /\ file' = NoFile
    /\ rep' = NoRep
    /\ doc' = NoDocument
    /\ documents' = << >>
    /\ outcome' = "running"
    /\ demand' = FALSE
    /\ yielded' = << >>
    /\ attempted' = << >>
    /\ heard' = << >>
    /\ said' = NoSaid
    /\ delays' = << >>
    /\ emptyDelays' = << >>
    /\ calls' = NoCalls
    /\ folderCalls' = << >>
    /\ lookups' = << >>
    /\ fetched' = << >>
    /\ fault' = NoFault
    /\ caught' = NoCaught
    /\ inflight' = 0
    /\ UNCHANGED <<loader, svc, flatSize, probe, options>>

\* lazyLoad() is called on a loader on which load() or lazyLoad() was called
\* before: what the earlier invocation did is kept in past, the new one
\* starts as a first one does
Invoke ==
    /\ pc \notin {"new", "probe"}
    /\ past = << >>
    /\ Over
    /\ past' = Append(past, [entry |-> entry,
                             attempted |-> attempted,
                             received |-> [i \in 1..Len(documents \o yielded) |->
                                             (documents \o yielded)[i].metadata.file_id]])
    /\ entry' = "lazyLoad"
    /\ pc' = "start"
    /\ idx' = 0
    /\ stack' = << >>
    /\ file' = NoFile
    /\ rep' = NoRep
    /\ doc' = NoDocument
    /\ documents' = << >>
    /\ outcome' = "running"
    /\ demand' = FALSE
    /\ yielded' = << >>
    /\ attempted' = << >>
    /\ heard' = << >>
    /\ said' = NoSaid
    /\ delays' = << >>
    /\ emptyDelays' = << >>
    /\ calls' = NoCalls
    /\ folderCalls' = << >>
    /\ lookups' = << >>
    /\ fetched' = << >>
    /\ fault' = NoFault
    /\ caught' = NoCaught
    /\ inflight' = 0
    /\ UNCHANGED <<loader, svc, flatSize, probe, options>>

\* loaders for two invocations: one file with every answer of the service,
\* lists of fewer than MaxIds ids, the folder trees (the larger one without
\* recursion), a flat folder of two pages
InitAgain ==
    /\ Init
    /\ characterLimit = NoNumber
    /\ auth # "badauth"
    /\ boxFileIds # NoFileIds => boxFolderId = Absent /\ Len(boxFileIds) < MaxIds
    /\ boxFolderId = D20 => ~recursive
    /\ boxFolderId = D30 => flatSize = 101 /\ ~recursive

NextAgain == Next \/ Invoke

SpecAgain == InitAgain /\ [][NextAgain]_vars

(***************************************************************************)
(* load() and then lazyLoad() on the same loader, against a service that   *)
(* answers every request the same way each time.                           *)
(***************************************************************************)
\* load() has returned or thrown: its result is kept in past, and lazyLoad()
\* is called and drained
LoadThenLazy ==
    /\ pc \notin {"new", "probe"}
    /\ past = << >>
    /\ entry = "load" /\ outcome # "running"
    /\ past' = << [entry |-> entry, outcome |-> outcome, documents |-> documents] >>
    /\ entry' = "lazyLoad"
    /\ pc' = "start"
    /\ idx' = 0
    /\ stack' = << >>
    /\ file' = NoFile
    /\ rep' = NoRep
    /\ doc' = NoDocument
    /\ documents' = << >>
    /\ outcome' = "running"
    /\ demand' = FALSE
    /\ yielded' = << >>
    /\ attempted' = << >>
    /\ heard' = << >>
    /\ said' = NoSaid
    /\ delays' = << >>
    /\ emptyDelays' = << >>
    /\ calls' = NoCalls
    /\ folderCalls' = << >>
    /\ lookups' = << >>
    /\ fetched' = << >>
    /\ fault' = NoFault
    /\ caught' = NoCaught
    /\ inflight' = 0
    /\ UNCHANGED <<loader, svc, flatSize, probe, options>>

\* the loaders the constructor accepts, over the steady services
InitBoth ==
    /\ entry = "load"
    /\ InitLoader
    /\ probe = NoProbe
    /\ options = NoOptions
    /\ svc \in {"steady", "steady_p2", "steady_pending", "steady_blank"}
    /\ boxFileIds \in {NoFileIds, << >>, << F11 >>, << F12, F11 >>}
    /\ boxFolderId \in {Absent, << >>, D20, D21, D30}
    /\ boxFileIds # NoFileIds \/ Truthy(boxFolderId)
    /\ recursive \in BOOLEAN
    /\ characterLimit \in {NoNumber, <<10>>}
    /\ auth \in {"client", "badauth"}
    /\ flatSize = IF boxFolderId = D30 THEN 101 ELSE 0
    /\ boxFolderId = D30 =>
          (~recursive /\ characterLimit = NoNumber /\ svc \in {"steady", "steady_p2"})

NextBoth == Next \/ LoadThenLazy

SpecBoth == InitBoth /\ [][NextBoth]_vars

(***************************************************************************)
(* Notions the properties share.                                           *)
(***************************************************************************)
\* the Documents the caller has received
Output == IF entry = "load" THEN documents ELSE yielded

FileIdsOf(docs) == [i \in 1..Len(docs) |-> docs[i].metadata.file_id]

LookedUp == [i \in 1..Len(lookups) |-> lookups[i].fileId]

\* the files of the service that isImageFile or isVideoFile answers true
\* for: B.PNG and d.Mp4
BinaryFiles == {F12, F15}

LookupSurvives(l) == l.ok /\ l.fileId \notin BinaryFiles

\* the ids whose client, token and metadata lookup succeeded and whose file
\* is no image or video, in the order of the lookups
Survivors ==
    LET kept == SelectSeq(lookups, LookupSurvives)
    IN  [i \in 1..Len(kept) |-> kept[i].fileId]

AllListingsOk == \A i \in 1..Len(folderCalls) : folderCalls[i].answer = "ok"

\* the loader runs over boxFileIds (load: whenever they are given; lazyLoad:
\* when they are given and not empty)
IdsMode ==
    /\ boxFileIds # NoFileIds
    /\ entry = "lazyLoad" => Len(boxFileIds) > 0

\* the file ids of a folder in depth-first pre-order, entering subfolders
\* when rec
RECURSIVE FilesOfEntries(_, _)
FilesOfEntries(entries, rec) ==
    IF entries = << >> THEN << >>
    ELSE IF Len(entries) = 1
    THEN LET e == entries[1]
         IN  IF e.type = "file" THEN << e.id >>
             ELSE IF e.type = "folder" /\ rec
             THEN FilesOfEntries(FolderEntriesOf(e.id, flatSize), rec)
             ELSE << >>
    ELSE LET half == Len(entries) \div 2
         IN  FilesOfEntries(SubSeq(entries, 1, half), rec)
                \o FilesOfEntries(SubSeq(entries, half + 1, Len(entries)), rec)

FilesUnder(folderId, rec) == FilesOfEntries(FolderEntriesOf(folderId, flatSize), rec)

\* the files the run has to attempt
ExpectedAttempts ==
    IF IdsMode THEN boxFileIds
    ELSE IF Truthy(boxFolderId) THEN FilesUnder(boxFolderId, recursive)
    ELSE << >>

(***************************************************************************)
(* C1                                                                      *)
(***************************************************************************)
\* C1 (as claimed): when load() over a list of ids of files that are no
\* images or videos returns, it has one Document per id, in the order of
\* the ids, whatever the service answered.
C1_OneDocumentPerId ==
    (/\ outcome = "returned" /\ entry = "load" /\ boxFileIds # NoFileIds
     /\ \A i \in 1..Len(boxFileIds) : boxFileIds[i] \notin BinaryFiles)
    => FileIdsOf(documents) = boxFileIds

\* C1 (amended): when load() over a list of ids returns, every id was looked
\* up, in the order of the list, and the Documents are exactly those of the
\* ids whose client, token and metadata lookup succeeded and whose file is
\* no image or video, one each, in that order; a failure of a later call of
\* the file (listing, info URL, content) does not lose its Document.
C1_OneDocumentPerSurvivingId ==
    (outcome = "returned" /\ entry = "load" /\ boxFileIds # NoFileIds)
    => /\ LookedUp = boxFileIds
       /\ FileIdsOf(documents) = Survivors

\* three ids, none an image or video, one of them lost to a failed lookup
C1_Witness ==
    /\ outcome = "returned" /\ entry = "load"
    /\ boxFileIds = << F11, F13, F14 >>
    /\ FileIdsOf(documents) = << F11, F14 >>
    /\ documents[1].pageContent = ErrorReadingFile(N_a_txt)

(***************************************************************************)
(* C2                                                                      *)
(***************************************************************************)
\* C2: a failure while one file is processed never leaves the loader and
\* never ends the batch: load() and lazyLoad() throw only before the first
\* file is attempted, and when they complete, loadFileById has been called
\* for every file of the id list, or of the folder traversal (whose listing
\* calls succeeded), in order.
C2_FailuresIsolated ==
    /\ outcome = "threw" => attempted = << >>
    /\ (outcome = "returned" /\ AllListingsOk) => attempted = ExpectedAttempts

\* a batch of three whose first file failed at the metadata lookup and whose
\* second failed later, run to its end
C2_Witness ==
    /\ outcome = "returned"
    /\ Len(attempted) = 3
    /\ ~lookups[1].ok
    /\ lookups[2].ok /\ lookups[3].ok
    /\ Len(Output) = 2
    /\ Output[1].pageContent = ErrorReadingFile(Output[1].metadata.file_name)

(***************************************************************************)
(* C3                                                                      *)
(***************************************************************************)
\* C3: within one resolution the listing is polled at most 3 times, poll
\* number k is preceded by a wait of 1500 ms x k, and no poll follows a
\* listing that reported the chosen kind ready; when the listings report
\* pending, pending, ready, exactly 2 polls were made, after waits of 1500 ms
\* and 3000 ms, and the ready representation is returned (its info URL is
\* fetched next).
C3_PollSchedule ==
    /\ Len(heard) <= 1 + 3
    /\ \A k \in 1..Len(delays) : delays[k] = 1500 * k
    /\ heard = << >> => delays = << >>
    /\ heard # << >> =>
          Len(delays) = IF pc = "rep_poll" THEN Len(heard) ELSE Len(heard) - 1
    /\ \A i \in 1..(Len(heard) - 1) : heard[i] # "ready"
    /\ (heard # << >> /\ heard[Len(heard)] = "ready") => pc \notin {"rep_delay", "rep_poll"}
    /\ heard = << "pending", "pending", "ready" >> =>
          /\ delays = << 1500, 3000 >>
          /\ rep.isReady /\ Truthy(rep.workingRep.infoUrl)
          /\ pc \in {"info_fetch", "info_body", "content_fetch", "content_body",
                      "empty_delay", "rep_list", "file_return"}

\* pending, pending, ready has just been heard
C3_Witness ==
    /\ heard = << "pending", "pending", "ready" >>
    /\ pc = "info_fetch"
    /\ calls.list = 3

(***************************************************************************)
(* C4                                                                      *)
(***************************************************************************)
AllPending == Len(heard) = 4 /\ \A i \in 1..4 : heard[i] = "pending"

\* C4: when the initial listing and the 3 polls all report pending or
\* processing, the polling stops after the third poll (waits 1500, 3000 and
\* 4500 ms), nothing is thrown, and, this being the file's first resolution,
\* loadFileById returns a Document whose content is the 'still processing'
\* placeholder (cut to characterLimit, when one is set).
C4_StillProcessing ==
    AllPending =>
        /\ delays = << 1500, 3000, 4500 >>
        /\ pc \notin {"rep_delay", "rep_poll", "info_fetch", "info_body"}
        /\ outcome = "running"
        /\ file.emptyAttempt = 0 =>
              /\ pc = "file_return"
              /\ doc # NoDocument
              /\ file.content = StillProcessing(file.repType, file.fileName)
              /\ doc.pageContent = ApplyCharacterLimit(file.content, characterLimit)

\* four pending listings in a file's first resolution, no characterLimit
C4_Witness ==
    /\ AllPending
    /\ file.emptyAttempt = 0
    /\ characterLimit = NoNumber
    /\ pc = "file_return"
    /\ doc.pageContent = S_Info \o S_extracted_text \o S_StillProcessingFor \o N_a_txt
                             \o S_Close

(***************************************************************************)
(* C5                                                                      *)
(***************************************************************************)
\* the first content fetch brought blank text and the first retry cycle
\* brought text that is not blank
EmptyThenText ==
    /\ Len(fetched) >= 2
    /\ fetched[1] = [attempt |-> 0, text |-> T_Empty]
    /\ fetched[2].attempt = 1
    /\ fetched[2].text \notin {Absent, T_Empty}

\* C5: when the first content fetch returns empty or whitespace-only text
\* and the first retry cycle returns text that is not, that text is the
\* Document's content (cut to characterLimit, when one is set) and the
\* retry loop ends there: one wait of 1000 ms, no second cycle.
C5_OneRetryCycle ==
    EmptyThenText =>
        /\ Len(fetched) = 2
        /\ emptyDelays = << 1000 >>
        /\ file.emptyAttempt = 1
        /\ pc = "file_return"
        /\ file.content = fetched[2].text
        /\ doc # NoDocument
        /\ doc.pageContent = ApplyCharacterLimit(fetched[2].text, characterLimit)

C5_Witness ==
    /\ EmptyThenText
    /\ pc = "file_return"
    /\ doc.pageContent = T_HelloWorld
    /\ calls.content = 2 /\ calls.info = 2

(***************************************************************************)
(* C6                                                                      *)
(***************************************************************************)
CallsOf(folderId) == SelectSeq(folderCalls, LAMBDA c : c.folderId = folderId)

ListedFolders == {folderCalls[i].folderId : i \in 1..Len(folderCalls)}

\* C6: enumerating a folder of N entries issues floor(N/100)+1 listing
\* calls, at offsets 0, 100, 200, ...: every call but the folder's last
\* received exactly 100 entries, and the last one fewer than 100 (an empty
\* page included); in load() and in lazyLoad().
C6_PageCalls ==
    /\ \A f \in ListedFolders :
          LET cs == CallsOf(f)
          IN  \A i \in 1..Len(cs) :
                 /\ cs[i].offset = 100 * (i - 1)
                 /\ cs[i].limit = 100
                 /\ i < Len(cs) => (cs[i].answer = "ok" /\ cs[i].received = 100)
    /\ (outcome = "returned" /\ AllListingsOk) =>
          \A f \in ListedFolders :
             LET cs == CallsOf(f)
                 N == Len(FolderEntriesOf(f, flatSize))
             IN  /\ Len(cs) = (N \div 100) + 1
                 /\ cs[Len(cs)].received = N % 100

\* a folder of exactly 100 entries took 2 calls, the second one empty
C6_Witness ==
    /\ outcome = "returned" /\ AllListingsOk
    /\ boxFolderId = D30 /\ flatSize = 100
    /\ Len(folderCalls) = 2
    /\ folderCalls[1].received = 100
    /\ folderCalls[2].offset = 100 /\ folderCalls[2].received = 0

(***************************************************************************)
(* C7                                                                      *)
(***************************************************************************)
\* every Document the run holds: returned, yielded, collected by a
\* loadFromFolder in progress, or just made by loadFileById
DocumentsHeld ==
    {documents[i] : i \in 1..Len(documents)}
      \cup {yielded[i] : i \in 1..Len(yielded)}
      \cup UNION {{stack[k].docs[i] : i \in 1..Len(stack[k].docs)} : k \in 1..Len(stack)}
      \cup (IF doc = NoDocument THEN {} ELSE {doc})

\* the files of the service whose name ends in an image or video
\* extension, whatever the letter case: B.PNG, d.Mp4 and the .png file whose
\* name starts with U+0130
ImageOrVideoNamed == {F12, F15, F17}

\* C7 (as claimed): a file of image or video type never yields a Document,
\* named in fileIds or found in a folder, and no representation listing,
\* info-URL fetch or content fetch is issued for it.
C7_NoImageOrVideo ==
    /\ \A d \in DocumentsHeld :
          /\ d.metadata.file_id \notin ImageOrVideoNamed
          /\ d.metadata.file_name \notin {N_B_PNG, N_d_Mp4, N_IDot_png}
    /\ file.fileId \in ImageOrVideoNamed =>
          /\ calls.list = 0 /\ calls.info = 0 /\ calls.content = 0
          /\ pc \in {"file_client", "file_token", "file_meta", "file_return"}

\* what holds of C7: the files whose name isImageFile or isVideoFile
\* recognises (B.PNG, d.Mp4) never yield a Document and have no
\* representation listing, info-URL fetch or content fetch issued, and the
\* name with U+0130 is the one image name that is not recognised
C7_RecognisedAreSkipped ==
    /\ \A d \in DocumentsHeld :
          /\ d.metadata.file_id \notin BinaryFiles
          /\ d.metadata.file_name \notin {N_B_PNG, N_d_Mp4}
    /\ file.fileId \in BinaryFiles =>
          /\ calls.list = 0 /\ calls.info = 0 /\ calls.content = 0
          /\ pc \in {"file_client", "file_token", "file_meta", "file_return"}
    /\ \A id \in ImageOrVideoNamed :
          (isImageFile(FileInfoOf(id).name) \/ isVideoFile(FileInfoOf(id).name))
             <=> id \in BinaryFiles

\* the .png file whose name starts with U+0130, named in boxFileIds: its
\* extension was taken for U+0307 '.png', so it was not skipped, its
\* representation was listed, and a Document was made for it
C7_Witness ==
    /\ pc = "file_return" /\ file.fileId = F17 /\ file.fileName = N_IDot_png
    /\ FileExtension(file.fileName) = <<C_DotAbove, ".", "p", "n", "g">>
    /\ ~isImageFile(file.fileName)
    /\ calls.meta = 1 /\ calls.list >= 1
    /\ doc # NoDocument /\ doc.metadata.file_id = F17
    /\ doc.metadata.file_name = N_IDot_png

(***************************************************************************)
(* C8                                                                      *)
(***************************************************************************)
\* C8: with a positive characterLimit L no Document's content is longer
\* than L; the content loadFileById returns is the first L characters of the
\* retrieved content when that is longer than L, and the retrieved content
\* itself otherwise ('hello world' with L = 10 gives 'hello worl').
C8_CharacterLimit ==
    (characterLimit # NoNumber /\ characterLimit[1] > 0) =>
        LET L == characterLimit[1]
        IN  /\ \A d \in DocumentsHeld : Len(d.pageContent) <= L
            /\ (pc = "file_return" /\ doc # NoDocument) =>
                  /\ Len(file.content) > L => doc.pageContent = SubSeq(file.content, 1, L)
                  /\ Len(file.content) <= L => doc.pageContent = file.content
                  /\ (L = 10 /\ file.content = T_HelloWorld) =>
                        doc.pageContent = <<"h", "e", "l", "l", "o", " ", "w", "o", "r", "l">>

C8_Witness ==
    /\ pc = "file_return"
    /\ characterLimit = <<10>>
    /\ file.content = T_HelloWorld
    /\ doc.pageContent = <<"h", "e", "l", "l", "o", " ", "w", "o", "r", "l">>

(***************************************************************************)
(* C9                                                                      *)
(***************************************************************************)
AllLookupsOk == \A i \in 1..Len(lookups) : lookups[i].ok

\* C9: loading folder D20 (files F11 and F13, subfolder D21) without
\* recursive lists D20 only, and yields the Documents of F11 and F13; with
\* recursive it yields, in traversal order, those and one for each file
\* under D21 that is not an image or a video (F14 and F16); the listings
\* and the metadata lookups having succeeded.
C9_Recursive ==
    /\ (~IdsMode /\ ~recursive) =>
          \A i \in 1..Len(folderCalls) : folderCalls[i].folderId = boxFolderId
    /\ (outcome = "returned" /\ ~IdsMode /\ boxFolderId = D20
           /\ AllListingsOk /\ AllLookupsOk) =>
          /\ ~recursive => FileIdsOf(Output) = << F11, F13 >>
          /\ recursive => FileIdsOf(Output) = << F11, F14, F16, F13 >>

C9_Witness ==
    /\ outcome = "returned" /\ entry = "load"
    /\ boxFolderId = D20 /\ ~recursive
    /\ Len(folderCalls) = 1 /\ folderCalls[1].received = 3
    /\ FileIdsOf(documents) = << F11, F13 >>

(***************************************************************************)
(* C10                                                                     *)
(***************************************************************************)
\* what the Document of each file of the service must carry
ExpectedMetadata(id) ==
    CASE id = F11 -> [ source |-> S_BoxFile \o <<"1", "1">>, file_id |-> <<"1", "1">>,
                       file_name |-> <<"a", ".", "t", "x", "t">>,
                       file_type |-> <<"t", "x", "t">>, file_size |-> 5,
                       created_at |-> <<"2", "0", "2", "4">>,
                       modified_at |-> <<"2", "0", "2", "5">>,
                       box_url |-> S_BoxUrl \o <<"1", "1">> ]
      [] id = F13 -> [ source |-> S_BoxFile \o <<"1", "3">>, file_id |-> <<"1", "3">>,
                       file_name |-> <<"c", ".", "p", "d", "f">>,
                       file_type |-> <<"p", "d", "f">>, file_size |-> 0,
                       created_at |-> <<"2", "0", "2", "4">>,
                       modified_at |-> << >>,
                       box_url |-> S_BoxUrl \o <<"1", "3">> ]
      [] id = F16 -> [ source |-> S_BoxFile \o <<"1", "6">>, file_id |-> <<"1", "6">>,
                       file_name |-> <<"p", "n", "g">>,
                       file_type |-> << >>, file_size |-> 3,
                       created_at |-> << >>,
                       modified_at |-> <<"2", "0", "2", "5">>,
                       box_url |-> S_BoxUrl \o <<"1", "6">> ]
      [] id = F17 -> [ source |-> S_BoxFile \o <<"1", "7">>, file_id |-> <<"1", "7">>,
                       file_name |-> <<"U+0130", ".", "p", "n", "g">>,
                       file_type |-> <<"p", "n", "g">>, file_size |-> 4,
                       created_at |-> <<"2", "0", "2", "4">>,
                       modified_at |-> <<"2", "0", "2", "5">>,
                       box_url |-> S_BoxUrl \o <<"1", "7">> ]
      [] OTHER    -> [ source |-> S_BoxFile \o id, file_id |-> id,
                       file_name |-> << >>, file_type |-> << >>, file_size |-> 0,
                       created_at |-> << >>, modified_at |-> << >>,
                       box_url |-> S_BoxUrl \o id ]

\* C10: every Document, one with a placeholder for content included,
\* carries the eight metadata fields, filled from the file's metadata lookup
\* ('' or 0 for a field the lookup left out), with file_id the id that was
\* requested and source and box_url made from that id.
C10_Metadata ==
    /\ \A d \in DocumentsHeld :
          /\ DOMAIN d.metadata = {"source", "file_id", "file_name", "file_type",
                                   "file_size", "created_at", "modified_at", "box_url"}
          /\ d.metadata = ExpectedMetadata(d.metadata.file_id)
    /\ (pc = "file_return" /\ doc # NoDocument) =>
          /\ doc.metadata.file_id = attempted[Len(attempted)]
          /\ doc.metadata.file_id = file.fileId

\* a Document whose content is a placeholder, with its metadata
C10_Witness ==
    /\ pc = "file_return"
    /\ doc.pageContent = ErrorReadingFile(N_c_pdf)
    /\ attempted[Len(attempted)] = F13
    /\ doc.metadata.file_id = F13
    /\ doc.metadata.file_name = N_c_pdf
    /\ doc.metadata.modified_at = << >>

(***************************************************************************)
(* C11                                                                     *)
(***************************************************************************)
\* the string the first fetch's failure must leave as content
FaultPlaceholder ==
    LET n == file.fileName
        t == file.repType
        code == IF fault.status = 404 THEN <<"4", "0", "4">>
                ELSE IF fault.status = 500 THEN <<"5", "0", "0">>
                ELSE <<"2", "0", "2">>
    IN  CASE fault.kind = "info_network" -> S_ErrorReadingFile \o n \o S_Close
          [] fault.kind = "info_status" ->
               S_ErrorFailedToGet \o t \o S_RepUrlFor \o n \o S_Status \o code \o S_Close
          [] fault.kind = "info_json" -> S_ErrorInvalidFormatFor \o n \o S_Close
          [] fault.kind = "info_template" ->
               S_ErrorNo \o t \o S_RepUrlAvailableFor \o n \o S_Close
          [] fault.kind = "content_network" ->
               S_ErrorNetwork \o t \o S_RepFor \o n \o S_Close
          [] fault.kind = "content_status" ->
               S_ErrorFailedToFetch \o t \o S_ContentFor \o n \o S_Status \o code \o S_Close
          [] OTHER -> << >>

\* no content fetch of the file brought text that is not blank
NeverText == \A i \in 1..Len(fetched) : fetched[i].text \in {Absent, T_Empty}

\* C11: once a file's representation listing was asked for, loadFileById
\* returns a Document; a failure of the first info-URL or content fetch
\* (network error, non-200 info answer, non-OK content answer, malformed
\* JSON, missing url_template) leaves the matching placeholder string as the
\* content and nothing is thrown; text that stays blank through both retry
\* cycles leaves the blank text as the content.
C11_FetchFailuresAreContent ==
    /\ fault.kind # "none" => outcome = "running"
    /\ (pc = "file_return" /\ calls.list >= 1) => doc # NoDocument
    /\ (pc = "file_return" /\ fault.kind \notin {"none", "empty"}) =>
          /\ file.emptyAttempt = 0
          /\ file.content = FaultPlaceholder
          /\ doc.pageContent = ApplyCharacterLimit(FaultPlaceholder, characterLimit)
    /\ (pc = "file_return" /\ fault.kind = "empty" /\ NeverText) =>
          /\ file.emptyAttempt = 2
          /\ emptyDelays = << 1000, 2000 >>
          /\ Len(Trim(file.content)) = 0
          /\ doc.pageContent = ApplyCharacterLimit(file.content, characterLimit)

\* the info URL answered 200 with a body that is no JSON
C11_Witness ==
    /\ pc = "file_return"
    /\ fault.kind = "info_json"
    /\ doc.pageContent = S_ErrorInvalidFormatFor \o N_a_txt \o S_Close

(***************************************************************************)
(* C12                                                                     *)
(***************************************************************************)
\* C12: the kind chosen for a file name is 'markdown' exactly when the name
\* has an extension that, in lower case, is one of docx, pptx, xls, xlsx,
\* xlsm, gdoc, gslide, gslides, gsheet, pdf; it is 'extracted_text' for
\* every other name, a name without a dot included.
C12_KindByExtension ==
    probe.kind # Absent =>
        LET markdown ==
              /\ probe.ext # Absent
              /\ probe.ext \in { <<"d", "o", "c", "x">>, <<"p", "p", "t", "x">>,
                                 <<"x", "l", "s">>, <<"x", "l", "s", "x">>,
                                 <<"x", "l", "s", "m">>, <<"g", "d", "o", "c">>,
                                 <<"g", "s", "l", "i", "d", "e">>,
                                 <<"g", "s", "l", "i", "d", "e", "s">>,
                                 <<"g", "s", "h", "e", "e", "t">>, <<"p", "d", "f">> }
        IN  probe.kind = IF markdown
                         THEN <<"m", "a", "r", "k", "d", "o", "w", "n">>
                         ELSE <<"e", "x", "t", "r", "a", "c", "t", "e", "d", "_",
                                "t", "e", "x", "t">>

\* a.b.PDF gets markdown
C12_Witness ==
    /\ probe.name = <<"a", ".", "b", ".", "P", "D", "F">>
    /\ probe.kind = S_markdown

(***************************************************************************)
(* C13                                                                     *)
(***************************************************************************)
\* no remote call was issued and loadFileById was never called
NothingIssued ==
    /\ calls = NoCalls /\ lookups = << >> /\ folderCalls = << >> /\ attempted = << >>

\* C13: when the options hold neither boxFileIds nor boxFolderId, or hold
\* neither boxAuth nor boxClient while BOX_DEVELOPER_TOKEN is unset, the
\* constructor throws: no remote call was issued, the loader's fields were
\* never set, and no step of load() or lazyLoad() can be taken.
C13_ConstructorThrows ==
    LET neitherInput == options.boxFileIds = NoFileIds /\ options.boxFolderId = Absent
        neitherAuth == /\ options.boxAuth = "undefined"
                       /\ options.boxClient = "undefined"
                       /\ ~options.envToken
    IN  (pc # "new" /\ (neitherInput \/ neitherAuth)) =>
            /\ outcome = "threw" /\ pc = "done"
            /\ NothingIssued
            /\ auth = "none" /\ boxFileIds = NoFileIds /\ boxFolderId = Absent
            /\ ~ENABLED Next

\* a client and a token in the environment, but nothing to load
C13_Witness ==
    /\ outcome = "threw"
    /\ options.boxClient = "client" /\ options.envToken
    /\ options.boxFileIds = NoFileIds /\ options.boxFolderId = Absent

(***************************************************************************)
(* C14                                                                     *)
(***************************************************************************)
\* no remote call has been issued so far in the run
NoRemoteCall ==
    /\ calls = NoCalls /\ folderCalls = << >>
    /\ pc \in {"new", "start", "ids_next", "file_client", "file_return",
                "folder_client", "lazy_client", "done"}

\* C14 as claimed: when boxAuth.getClient() fails, a run that has ended has
\* ended by throwing, whatever the input (an empty id list, for which the
\* client is never asked for, left aside).
C14_ClientFailureIsFatal ==
    (auth = "badauth" /\ outcome # "running" /\ boxFileIds # << >>) =>
        outcome = "threw"

\* what holds of C14: when boxAuth.getClient() fails no remote call is ever
\* issued; with
\* folder input load() and lazyLoad() throw before loadFileById is called;
\* with file-id input loadFileById catches the failure for each id in turn
\* and the run completes with no Document at all.
C14_ClientFailure ==
    auth = "badauth" =>
        /\ NoRemoteCall
        /\ (outcome # "running" /\ ~IdsMode) =>
              /\ outcome = "threw"
              /\ attempted = << >>
        /\ (outcome # "running" /\ IdsMode) =>
              /\ outcome = "returned"
              /\ Output = << >>
              /\ attempted = boxFileIds
              /\ \A i \in 1..Len(lookups) : ~lookups[i].ok

\* load() of two ids has returned the empty list
C14_Witness ==
    /\ auth = "badauth" /\ entry = "load"
    /\ outcome = "returned"
    /\ Len(boxFileIds) = 2 /\ attempted = boxFileIds
    /\ documents = << >>

(***************************************************************************)
(* C15                                                                     *)
(***************************************************************************)
\* the listing of this folder was asked for and failed
ListingFailed(folderId) ==
    \E i \in 1..Len(folderCalls) :
        folderCalls[i].folderId = folderId /\ folderCalls[i].answer = "throw"

\* the listing of this folder was asked for and answered
ListingOk(folderId) ==
    \E i \in 1..Len(folderCalls) :
        folderCalls[i].folderId = folderId /\ folderCalls[i].answer = "ok"

\* C15: a run never throws once a folder listing was asked for.  In the
\* recursive load of folder D20 (F11, subfolder D21, F13; D21 holds F12,
\* a web link, subfolder D22, F16; D22 holds F14, F15): when the listing of
\* D21 fails, D22 is never listed and exactly F11 and F13 are processed, in
\* that order; when the listing of D22 fails, exactly F11, F12, F16, F13
\* are; each file whose lookups succeed and that is no image or video
\* yields its Document.  In load() and in lazyLoad().
C15_SubfolderFailure ==
    /\ folderCalls # << >> => outcome # "threw"
    /\ (outcome = "returned" /\ ~IdsMode /\ boxFolderId = D20 /\ recursive
          /\ ListingOk(D20)) =>
          /\ ListingFailed(D21) =>
                /\ attempted = << F11, F13 >>
                /\ ~ListingOk(D22) /\ ~ListingFailed(D22)
                /\ AllLookupsOk => FileIdsOf(Output) = << F11, F13 >>
          /\ (ListingOk(D21) /\ ListingFailed(D22)) =>
                /\ attempted = << F11, F12, F16, F13 >>
                /\ AllLookupsOk => FileIdsOf(Output) = << F11, F16, F13 >>

\* the listing of D21 failed and load() returned the Documents of F11 and F13
C15_Witness ==
    /\ outcome = "returned" /\ entry = "load"
    /\ boxFolderId = D20 /\ recursive
    /\ ListingFailed(D21)
    /\ FileIdsOf(documents) = << F11, F13 >>

(***************************************************************************)
(* C16                                                                     *)
(***************************************************************************)
\* the answer of a fetch has come and its body is being read
ReadingBody == pc \in {"info_body", "content_body"}

\* C16: at every moment of a load() or lazyLoad() run at most one remote
\* call (token retrieval, metadata lookup, representation listing, folder
\* page request, info-URL fetch, content fetch) has been issued and not yet
\* answered, and while one is, the run stands at that call (or reads the
\* body of the fetch's answer) and has not ended: the next call is issued
\* only after the answer.
C16_OneCallInFlight ==
    /\ inflight \in {0, 1}
    /\ inflight = 1 =>
          /\ AtRemoteCall \/ ReadingBody
          /\ outcome = "running"
    /\ ReadingBody => inflight = 1

\* the second poll of a file is in flight; the listing and the first poll
\* have been answered
C16_Witness ==
    /\ inflight = 1
    /\ pc = "rep_poll"
    /\ calls.list = 2
    /\ heard = << "pending", "pending" >>

(***************************************************************************)
(* C17                                                                     *)
(***************************************************************************)
\* lazyLoad() is suspended: it has not been asked for a Document it has not
\* yet delivered
Suspended == entry = "lazyLoad" /\ outcome = "running" /\ ~demand

\* C17: while lazyLoad() is suspended no remote call is in flight and none
\* can be issued; before the first pull nothing at all has been called; and
\* while the consumer holds the k-th Document the last file loadFileById
\* was called for is that Document's file, so no later file was touched.
\* Each folder on the recursion path buffers at most its current page (at
\* most 100 entries), and the pages requested of it are those up to the
\* current one.
C17_PullDriven ==
    /\ Suspended =>
          /\ inflight = 0
          /\ ~ENABLED Issue
          /\ pc \in {"start", "ids_next", "gen_item"}
          /\ yielded = << >> =>
                /\ pc = "start"
                /\ attempted = << >> /\ folderCalls = << >> /\ lookups = << >>
          /\ yielded # << >> =>
                /\ attempted # << >>
                /\ attempted[Len(attempted)] = yielded[Len(yielded)].metadata.file_id
    /\ entry = "lazyLoad" =>
          \A k \in 1..Len(stack) :
             /\ Len(stack[k].items) <= 100
             /\ stack[k].items \in
                   {<< >>, FolderPageOf(stack[k].folderId, flatSize, stack[k].offset, 100)}
             /\ Len(CallsOf(stack[k].folderId)) <= (stack[k].offset \div 100) + 1

\* the consumer holds the second Document of a recursive traversal, found
\* two folders down, and has not asked for a third
C17_Witness ==
    /\ Suspended
    /\ boxFolderId = D20 /\ recursive
    /\ FileIdsOf(yielded) = << F11, F14 >>
    /\ Len(stack) = 3
    /\ attempted = << F11, F12, F14 >>

(***************************************************************************)
(* C18                                                                     *)
(***************************************************************************)
\* C18: a lazyLoad() called after an earlier load() or lazyLoad() on the same
\* loader, however far that one ran or was consumed, starts at the first
\* input id or at offset 0 of the root folder and, when run to its end with
\* the listings answered, calls loadFileById for the whole input in order;
\* and within every invocation no file is processed twice: the ids
\* loadFileById was called with are distinct, and with the listings answered
\* they are an initial part of the input in traversal order.
C18_RestartForwardOnly ==
    /\ IsPermutationFree(attempted)
    /\ IsPermutationFree(FileIdsOf(Output))
    /\ AllListingsOk =>
          /\ Len(attempted) <= Len(ExpectedAttempts)
          /\ attempted = SubSeq(ExpectedAttempts, 1, Len(attempted))
    /\ past # << >> =>
          /\ entry = "lazyLoad"
          /\ attempted # << >> => attempted[1] = ExpectedAttempts[1]
          /\ folderCalls # << >> =>
                folderCalls[1].folderId = boxFolderId /\ folderCalls[1].offset = 0
          /\ (outcome = "returned" /\ AllListingsOk) => attempted = ExpectedAttempts

C18_Witness ==
    /\ past # << >>
    /\ past[1].entry = "lazyLoad"
    /\ boxFolderId = D21 /\ recursive
    /\ past[1].attempted = << F12, F14 >> /\ past[1].received = << F14 >>
    /\ outcome = "returned"
    /\ attempted = << F12, F14, F15, F16 >>
    /\ FileIdsOf(yielded) = << F14, F16 >>

(***************************************************************************)
(* C19                                                                     *)
(***************************************************************************)
\* both inputs were given to the loader
BothSupplied == boxFileIds # NoFileIds /\ Truthy(boxFolderId)

\* the ids among s of files that are no image and no video
NonBinary(s) == SelectSeq(s, LAMBDA id : id \notin BinaryFiles)

\* C19 (as claimed): with both boxFileIds and boxFolderId given, a run that
\* has returned has processed the ids and then the files of the folder, and,
\* the lookups having succeeded, has passed on their Documents in that order.
C19_BothProcessed ==
    (BothSupplied /\ boxFileIds # << >> /\ outcome = "returned"
        /\ AllListingsOk /\ AllLookupsOk) =>
       /\ attempted = boxFileIds \o FilesUnder(boxFolderId, recursive)
       /\ FileIdsOf(Output) = NonBinary(boxFileIds \o FilesUnder(boxFolderId, recursive))

\* C19 (amended): with both boxFileIds and boxFolderId given, the ids win:
\* load() never lists the folder and returns the Documents of the ids only,
\* and so does lazyLoad() for a list that is not empty; for an empty list
\* load() returns no Document, and lazyLoad() traverses the folder.
C19_IdsOnly ==
    BothSupplied =>
       /\ IdsMode =>
             /\ folderCalls = << >> /\ stack = << >>
             /\ Len(attempted) <= Len(boxFileIds)
             /\ attempted = SubSeq(boxFileIds, 1, Len(attempted))
             /\ outcome # "threw"
             /\ outcome = "returned" =>
                   /\ attempted = boxFileIds
                   /\ AllLookupsOk => FileIdsOf(Output) = NonBinary(boxFileIds)
       /\ ~IdsMode =>
             /\ entry = "lazyLoad" /\ boxFileIds = << >>
             /\ (outcome = "returned" /\ AllListingsOk) =>
                   attempted = FilesUnder(boxFolderId, recursive)

C19_Witness ==
    /\ entry = "load" /\ outcome = "returned"
    /\ boxFileIds = << F11 >> /\ boxFolderId = D22
    /\ FileIdsOf(documents) = << F11 >>
    /\ attempted = << F11 >>
    /\ folderCalls = << >>

(***************************************************************************)
(* C20                                                                     *)
(***************************************************************************)
\* the ids of s whose Document is among docs, in the order of s
Kept(s, docs) ==
    SelectSeq(s, LAMBDA id : \E i \in 1..Len(docs) : docs[i].metadata.file_id = id)

\* C20: for folder input with recursive, the files are processed and the
\* Documents passed on in depth-first pre-order of the folder tree (the
\* entries of a folder in listing order, the subtree of a subfolder at the
\* place of the subfolder): with the listings answered the ids loadFileById
\* was called with are an initial part of that order, the whole of it at the
\* end; the Documents of load() and of lazyLoad() are in that order, each
\* file at most once, whichever listings and lookups failed.  For folder D20
\* (F11, subfolder D21, F13; D21 holds F12, a web link, subfolder D22, F16;
\* D22 holds F14, F15) the files are processed in the order F11, F12, F14,
\* F15, F16, F13 and, the lookups having succeeded, the Documents are those
\* of F11, F14, F16, F13 in this order.
C20_PreOrder ==
    (~IdsMode /\ Truthy(boxFolderId) /\ recursive) =>
       LET order == FilesUnder(boxFolderId, TRUE)
       IN  /\ AllListingsOk =>
                /\ Len(attempted) <= Len(order)
                /\ attempted = SubSeq(order, 1, Len(attempted))
                /\ outcome = "returned" => attempted = order
           /\ FileIdsOf(Output) = Kept(order, Output)
           /\ \A k \in 1..Len(stack) :
                 FileIdsOf(stack[k].docs) = Kept(FilesUnder(stack[k].folderId, TRUE),
                                                 stack[k].docs)
           /\ (boxFolderId = D20 /\ outcome = "returned" /\ AllListingsOk) =>
                 /\ attempted = << F11, F12, F14, F15, F16, F13 >>
                 /\ AllLookupsOk => FileIdsOf(Output) = << F11, F14, F16, F13 >>

C20_Witness ==
    /\ entry = "load" /\ outcome = "returned"
    /\ boxFolderId = D20 /\ recursive
    /\ attempted = << F11, F12, F14, F15, F16, F13 >>
    /\ FileIdsOf(documents) = << F11, F14, F16, F13 >>

(***************************************************************************)
(* C21                                                                     *)
(***************************************************************************)
\* the latest listing held nothing of the chosen kind
SaidNothing == said.kind = "noreps" \/ (said.kind = "ok" /\ said.entry = NoEntry)

\* C21: when the first listing of a resolution has no representations list
\* or no entry of the chosen kind, getReadyRepresentation returns at once:
\* no delay is waited for and no polling call made, and (in the file's first
\* resolution) the Document's content is the 'No representations available'
\* diagnostic for a missing list, the 'No <kind> representation available'
\* one for a missing entry, after one listing call.
C21_NoRepresentationAtOnce ==
    (Len(heard) = 1 /\ SaidNothing) =>
       /\ pc \notin {"rep_delay", "rep_poll", "info_fetch", "info_body",
                     "content_fetch", "content_body"}
       /\ delays = << >>
       /\ file.emptyAttempt = 0 =>
             /\ pc = "file_return"
             /\ calls.list = 1 /\ calls.info = 0 /\ calls.content = 0
             /\ doc # NoDocument
             /\ doc.pageContent =
                   ApplyCharacterLimit(
                      IF said.kind = "noreps"
                      THEN NoRepresentationsList(file.fileName)
                      ELSE NoRepresentation(file.repType, file.fileName),
                      characterLimit)

C21_Witness ==
    /\ Len(heard) = 1 /\ said.kind = "ok" /\ said.entry = NoEntry
    /\ pc = "file_return" /\ file.emptyAttempt = 0
    /\ characterLimit = NoNumber
    /\ doc.pageContent = NoRepresentation(file.repType, file.fileName)
    /\ calls.list = 1 /\ delays = << >>

(***************************************************************************)
(* C22                                                                     *)
(***************************************************************************)
\* the file's first getReadyRepresentation has returned a diagnostic for an
\* entry of the chosen kind, and loadFileById has made its Document of it
Diagnosed ==
    /\ pc = "file_return" /\ file.emptyAttempt = 0 /\ doc # NoDocument
    /\ rep.workingRep # NoEntry
    /\ said.kind # "throw"
    /\ ~(rep.isReady /\ Truthy(rep.workingRep.infoUrl))

\* C22: the diagnostic of getReadyRepresentation goes by the state of the
\* entry it ends with: 'none' gives 'No <kind> representation available',
\* 'error' (and 'failed') '<kind> extraction failed', 'pending' and
\* 'processing', met only after all three polls, '<kind> representation
\* still processing', and every other state that is not ready with an info
\* URL 'Unknown <kind> representation state'.  An entry in one of these
\* states is never fetched from, and the diagnostic, not an error text, is
\* the Document's content.
C22_DiagnosticByState ==
    /\ Diagnosed =>
          LET state == rep.workingRep.state
              diagnostic ==
                 CASE state = "none" -> NoRepresentation(file.repType, file.fileName)
                   [] state \in {"error", "failed"} ->
                         ExtractionFailed(file.repType, file.fileName)
                   [] state \in {"pending", "processing"} ->
                         StillProcessing(file.repType, file.fileName)
                   [] OTHER -> UnknownState(file.repType, file.fileName)
          IN  /\ doc.pageContent = ApplyCharacterLimit(diagnostic, characterLimit)
              /\ state \in {"pending", "processing"} => Len(delays) = maxRetries
              /\ calls.info = 0 /\ calls.content = 0
    /\ pc \in {"info_fetch", "info_body", "content_fetch", "content_body"} =>
          /\ rep.workingRep.state \in {NoState, "success", "viewable"}
          /\ Truthy(rep.workingRep.infoUrl)

C22_Witness ==
    /\ Diagnosed
    /\ characterLimit = NoNumber
    /\ Len(heard) = 4 /\ heard[1] = "pending"
    /\ rep.workingRep.state = "error"
    /\ doc.pageContent = ExtractionFailed(file.repType, file.fileName)

(***************************************************************************)
(* C23                                                                     *)
(***************************************************************************)
\* the first listing of the file's first resolution lists the chosen kind in
\* a state taken as ready
FirstSaidReady ==
    /\ file.emptyAttempt = 0 /\ Len(heard) = 1 /\ said.kind = "ok"
    /\ \/ said.entry.state \in {"success", "viewable"}
       \/ said.entry.state = NoState /\ Truthy(said.entry.infoUrl)

\* getReadyRepresentation has returned the entry: loadFileById is about to
\* fetch its info URL, or has done so
DescriptorReturned == pc = "info_fetch" \/ calls.info >= 1

\* C23 (as claimed): an entry of the chosen kind listed as 'success' or
\* 'viewable', or without a state but with an info URL, is not polled and is
\* returned as the representation to fetch.
C23_ReadyReturnsDescriptor ==
    FirstSaidReady =>
       /\ delays = << >> /\ calls.list = 1
       /\ pc \notin {"rep_delay", "rep_poll"}
       /\ DescriptorReturned

\* C23 (amended): such an entry is never polled; it is returned as the
\* representation to fetch when it has an info URL, and without one (state
\* 'success' or 'viewable') the 'Unknown <kind> representation state'
\* diagnostic is returned and nothing is fetched.
C23_ReadyNeedsUrl ==
    FirstSaidReady =>
       /\ delays = << >> /\ calls.list = 1
       /\ pc \notin {"rep_delay", "rep_poll"}
       /\ rep.workingRep = said.entry /\ rep.isReady
       /\ Truthy(said.entry.infoUrl) => DescriptorReturned
       /\ ~Truthy(said.entry.infoUrl) =>
             /\ pc = "file_return" /\ calls.info = 0 /\ calls.content = 0
             /\ doc # NoDocument
             /\ doc.pageContent =
                   ApplyCharacterLimit(UnknownState(file.repType, file.fileName),
                                       characterLimit)

C23_Witness ==
    /\ FirstSaidReady
    /\ said.entry.state = "viewable" /\ Truthy(said.entry.infoUrl)
    /\ pc = "info_fetch" /\ calls.list = 1 /\ calls.info = 0
    /\ rep.workingRep = said.entry

(***************************************************************************)
(* C24                                                                     *)
(***************************************************************************)
\* the file's first getReadyRepresentation has returned (without an
\* exception), and nothing was done with its result yet but making the
\* Document of a diagnostic
FirstResolutionOver ==
    /\ file.emptyAttempt = 0 /\ heard # << >> /\ said.kind \in {"ok", "noreps"}
    /\ \/ pc = "info_fetch"
       \/ pc = "file_return" /\ doc # NoDocument /\ calls.info = 0

\* what getReadyRepresentation makes of one listing answer taken alone
OfListingAlone(s) ==
    IF s.kind = "noreps"
    THEN [ready |-> FALSE, content |-> NoRepresentationsList(file.fileName)]
    ELSE IF s.entry = NoEntry
    THEN [ready |-> FALSE, content |-> NoRepresentation(file.repType, file.fileName)]
    ELSE ResolveResult(s.entry, IsReady(s.entry), file.repType, file.fileName)

\* the result getReadyRepresentation has returned is res
Returned(res) ==
    IF res.ready THEN pc = "info_fetch"
    ELSE /\ pc = "file_return"
         /\ doc.pageContent = ApplyCharacterLimit(res.content, characterLimit)

\* C24 (as claimed): the result of getReadyRepresentation is what its most
\* recent listing answer alone gives.
C24_FreshestListingAlone == FirstResolutionOver => Returned(OfListingAlone(said))

\* C24 (amended): the result of getReadyRepresentation is what the most
\* recent listing answer that held an entry of the chosen kind gives: an
\* answer with such an entry replaces the entry and the readiness kept so
\* far, whatever they were; a poll answered without one leaves them as they
\* are, and the result is then that of the entry kept from an earlier answer.
C24_FreshestEntry ==
    /\ (said.kind = "ok" /\ said.entry # NoEntry /\ pc # "rep_list") =>
          /\ rep.workingRep = said.entry
          /\ rep.isReady = IsReady(said.entry)
    /\ FirstResolutionOver =>
          /\ ~SaidNothing => Returned(OfListingAlone(said))
          /\ (SaidNothing /\ Len(heard) = 1) => Returned(OfListingAlone(said))
          /\ (SaidNothing /\ Len(heard) > 1) =>
                /\ rep.workingRep # NoEntry /\ ~rep.isReady
                /\ Len(heard) = 1 + maxRetries
                /\ Returned(ResolveResult(rep.workingRep, rep.isReady,
                                          file.repType, file.fileName))

C24_Witness ==
    /\ FirstResolutionOver
    /\ characterLimit = NoNumber
    /\ Len(heard) = 4 /\ SaidNothing
    /\ rep.workingRep.state = "pending"
    /\ doc.pageContent = StillProcessing(file.repType, file.fileName)

(***************************************************************************)
(* C25                                                                     *)
(***************************************************************************)
\* the first content fetch brought blank text and no retry brought text
\* that is not blank
NoAttemptGaveText ==
    /\ fetched # << >>
    /\ fetched[1].attempt = 0 /\ fetched[1].text = T_Empty
    /\ \A i \in 1..Len(fetched) : fetched[i].text \in {Absent, T_Empty}

\* ... and loadFileById has made its Document
Exhausted == NoAttemptGaveText /\ pc = "file_return"

\* the last attempt made was the second retry, and it fetched blank text
LastAttemptBlank ==
    /\ fetched[Len(fetched)].attempt = maxEmptyRetries
    /\ fetched[Len(fetched)].text = T_Empty

\* C25 (as claimed): when the first fetch and every retry gave no text that
\* is not blank, two retry cycles were made after 1000 ms and 2000 ms and
\* the Document's content is the result of the last attempt: its blank
\* text, or else the diagnostic it ended with.
C25_LastAttemptKept ==
    Exhausted =>
       /\ emptyDelays = << 1000, 2000 >>
       /\ doc # NoDocument
       /\ LastAttemptBlank \/ Len(Trim(doc.pageContent)) > 0

\* C25 (amended): when the first fetch and every retry gave no text that is
\* not blank, two retry cycles were made, after 1000 ms and 2000 ms, each
\* with a new resolution (a listing call at least), and the Document's
\* content is the blank text the first fetch brought: in the retry loop the
\* content changes only when a retry brings text that is not blank, and what
\* else a retry ended with (a diagnostic, an error, blank text) is dropped.
C25_TwoRetriesFirstTextKept ==
    /\ [](Exhausted =>
            /\ emptyDelays = << 1000, 2000 >>
            /\ file.emptyAttempt = maxEmptyRetries
            /\ calls.list >= 1 + maxEmptyRetries
            /\ calls.content = Len(fetched) /\ calls.content <= 1 + maxEmptyRetries
            /\ doc # NoDocument
            /\ doc.pageContent \in {T_Empty, T_Blank}
            /\ doc.pageContent = ApplyCharacterLimit(file.content, characterLimit))
    /\ [][ /\ (file.emptyAttempt = 0 /\ file'.emptyAttempt = 1) =>
                /\ fetched' # << >>
                /\ file'.content \in {T_Empty, T_Blank}
           /\ (file.emptyAttempt >= 1 /\ file'.emptyAttempt >= 1
                  /\ file'.content # file.content) =>
                /\ pc' = "file_return"
                /\ Len(fetched') = Len(fetched) + 1
                /\ file'.content = fetched'[Len(fetched')].text
                /\ Len(Trim(file'.content)) > 0 ]_vars

C25_Witness ==
    /\ Exhausted
    /\ characterLimit = NoNumber
    /\ Len(fetched) = 2 /\ fetched[2].attempt = 1
    /\ heard = << "other" >>
    /\ emptyDelays = << 1000, 2000 >>
    /\ doc.pageContent = T_Blank

(***************************************************************************)
(* C26                                                                     *)
(***************************************************************************)
\* the running loadFileById has caught an exception in its outer or in its
\* inner catch
HasCaught == caught.by # "none"

\* C26: an exception caught by loadFileById has the same effect whatever
\* status it carries (none, 401, 403, 500): caught by the outer catch
\* (client, token, metadata lookup) the file gives no Document, caught by
\* the inner catch (listing, info fetch) the Document's content is
\* '[Error reading file: <name>]'; the run stays alive and goes on with the
\* next id or folder entry.  Only the message logged differs: the
\* authentication one for 401 and 403, the general one otherwise.
C26_StatusChangesLogOnly ==
    /\ [](HasCaught =>
            /\ pc = "file_return" /\ outcome = "running"
            /\ caught.by = "outer" =>
                  /\ doc = NoDocument
                  /\ lookups # << >> /\ ~lookups[Len(lookups)].ok
                  /\ calls.list = 0
            /\ caught.by = "inner" =>
                  /\ doc # NoDocument
                  /\ doc.pageContent =
                        ApplyCharacterLimit(ErrorReadingFile(file.fileName), characterLimit)
                  /\ doc.metadata.file_id = file.fileId
            /\ caught.logged = "authentication" <=> caught.status \in {401, 403})
    /\ [][HasCaught =>
            /\ ~HasCaught'
            /\ outcome' = "running"
            /\ pc' \in {"ids_next", "folder_item", "gen_item"}
            /\ attempted' = attempted
            /\ idx' = IF stack = << >> THEN idx + 1 ELSE idx
            /\ Len(documents') + Len(yielded')
                  + (IF stack' = << >> THEN 0 ELSE Len(stack'[Len(stack')].docs))
               = Len(documents) + Len(yielded)
                  + (IF stack = << >> THEN 0 ELSE Len(stack[Len(stack)].docs))
                  + (IF caught.by = "inner" THEN 1 ELSE 0)]_vars

C26_Witness ==
    /\ HasCaught
    /\ caught.by = "inner" /\ caught.status = 403
    /\ Len(boxFileIds) = 2 /\ idx = 1 /\ entry = "load"
    /\ doc.pageContent = ErrorReadingFile(file.fileName)

(***************************************************************************)
(* C27                                                                     *)
(***************************************************************************)
\* loadFileById is running for, or has just returned from, an image or a
\* video of the service (B.PNG, d.Mp4)
AtBinaryFile == file.fileId \in BinaryFiles

\* C27 (as claimed): no remote call is issued for an image or a video: no
\* metadata lookup, no representation listing, no info or content fetch.
C27_NoCallForBinary ==
    AtBinaryFile =>
       calls.meta = 0 /\ calls.list = 0 /\ calls.info = 0 /\ calls.content = 0

\* C27 (amended): for an image or a video the loader retrieves the token
\* and looks the file's metadata up, once, and decides on the name it
\* receives: the skip is taken exactly when that lookup has been answered,
\* and no representation listing, info fetch or content fetch is ever
\* issued for the file, named in boxFileIds or found in a folder.
C27_SkipAfterLookup ==
    AtBinaryFile =>
       /\ calls.list = 0 /\ calls.info = 0 /\ calls.content = 0
       /\ calls.meta <= 1
       /\ pc \in {"file_client", "file_token", "file_meta", "file_return"}
       /\ doc = NoDocument
       /\ pc = "file_meta" => calls.meta = 0 /\ file.fileName = << >>
       /\ (pc = "file_return" /\ ~HasCaught) =>
             /\ calls.meta = 1
             /\ lookups # << >>
             /\ lookups[Len(lookups)] = [fileId |-> file.fileId, ok |-> TRUE]
             /\ isImageFile(file.fileName) \/ isVideoFile(file.fileName)
       /\ (pc = "file_return" /\ HasCaught) => file.fileName = << >>

C27_Witness ==
    /\ AtBinaryFile
    /\ file.fileId = F12 /\ file.fileName = N_B_PNG
    /\ entry = "lazyLoad" /\ stack = << >> /\ F12 = boxFileIds[idx]
    /\ pc = "file_return" /\ ~HasCaught
    /\ calls.meta = 1 /\ calls.list = 0


(***************************************************************************)
(* C28                                                                     *)
(***************************************************************************)
\* new BoxLoader(options) returned a loader
Constructed == pc # "new" /\ auth # "none"

\* getClient() has answered with a client in this run
ClientObtained == pc \in {"file_token", "folder_page", "gen_page"}

\* getClient() is about to be called by loadFileById, loadFromFolder or lazyLoad
ClientAsked == Running /\ pc \in {"file_client", "folder_client", "lazy_client"}

\* the options name something to load
InputGiven == options.boxFileIds # NoFileIds \/ Truthy(options.boxFolderId)

\* the options carry no boxAuth and no boxClient, and BOX_DEVELOPER_TOKEN is set
EnvTokenOnly ==
    /\ options.boxAuth = "undefined" /\ options.boxClient = "undefined"
    /\ options.envToken

\* C28: a loader constructed without boxAuth and without boxClient while
\* BOX_DEVELOPER_TOKEN is set (and with something to load) is constructed, and
\* every getClient() call of load() or lazyLoad() answers with a client, from
\* the token BoxAuth built from that variable; a loader given a boxClient
\* answers with that client whatever boxAuth is.
C28_ClientPrecedence ==
    /\ [](/\ (pc # "new" /\ InputGiven /\ EnvTokenOnly) =>
                (Constructed /\ auth = "envauth")
          /\ (pc # "new" /\ InputGiven /\ options.boxClient = "client") =>
                (Constructed /\ auth = "client")
          /\ Constructed => ((auth = "envauth") = EnvTokenOnly))
    /\ [][(ClientAsked /\ (EnvTokenOnly \/ options.boxClient = "client"))
              => (ClientObtained' /\ auth' = auth /\ outcome' = "running")]_vars

\* lazyLoad() of a folder got its client from the environment's token
C28_Witness ==
    /\ ClientObtained /\ entry = "lazyLoad" /\ auth = "envauth"
    /\ options.boxAuth = "undefined" /\ options.boxClient = "undefined"
    /\ options.envToken


(***************************************************************************)
(* C29                                                                     *)
(***************************************************************************)
\* sanitizeFolderId has returned
Sanitized == probe.fn = "sanitizeFolderId" /\ probe.out # << >>

\* a decimal numeral as written for an integer: digits without a leading
\* zero, after '-' for a negative number
IsNumeral(s) ==
    LET body == IF s # << >> /\ s[1] = "-" THEN Tail(s) ELSE s
    IN  /\ body # << >>
        /\ \A i \in 1..Len(body) : \E d \in 1..10 : DigitChars[d] = body[i]
        /\ Len(body) > 1 => body[1] # "0"
        /\ s[1] = "-" => body # <<"0">>

RECURSIVE DigitsValue(_)
DigitsValue(s) ==
    IF s = << >> THEN 0
    ELSE 10 * DigitsValue(SubSeq(s, 1, Len(s) - 1))
         + (CHOOSE d \in 1..10 : DigitChars[d] = s[Len(s)]) - 1

NumeralValue(s) == IF s[1] = "-" THEN 0 - DigitsValue(Tail(s)) ELSE DigitsValue(s)

\* C29: sanitizeFolderId answers '0' for 'root', for '0' and for the number
\* 0; every other string comes back as it is, and every other number as the
\* decimal numeral of that number.
C29_RootOrOwnString ==
    Sanitized =>
        LET a == probe.arg
            r == probe.out[1]
        IN  IF a.type = "string"
            THEN IF a.value = S_root \/ a.value = <<"0">>
                 THEN r = <<"0">>
                 ELSE r = a.value
            ELSE IF a.value = 0
                 THEN r = <<"0">>
                 ELSE IsNumeral(r) /\ NumeralValue(r) = a.value

\* the number 123456 came back as the string '123456'
C29_Witness ==
    /\ Sanitized
    /\ probe.arg.type = "number" /\ probe.arg.value = 123456
    /\ probe.out[1] = <<"1", "2", "3", "4", "5", "6">>


(***************************************************************************)
(* C30                                                                     *)
(***************************************************************************)
\* isTextFile has returned
Classified == probe.fn = "isTextFile" /\ probe.out # << >>

\* the part of the name from its last '.', in lower case, is a text extension
TextByLastDotPart(filename) ==
    LET dot == LastIndexOf(filename, ".")
    IN  dot >= 0 /\ ToLowerCase(SubstringFrom(filename, dot)) \in textExtensions

\* C30: isTextFile answers true exactly for the names whose part from the
\* last '.', letter case aside, is a text extension, and so false for every
\* name without a '.'.
C30_ByLastDotPart == Classified => (probe.out[1] = TextByLastDotPart(probe.arg))

\* a name ending in '.txt' after a stem that holds U+0130 was answered false
C30_Witness ==
    /\ Classified
    /\ probe.arg = <<C_IDot, "s", ".", "t", "x", "t">>
    /\ probe.out[1] = FALSE


(***************************************************************************)
(* C31                                                                     *)
(***************************************************************************)
\* loadFileById is at work on a file
InLoadFileById ==
    pc \in {"file_client", "file_token", "file_meta", "rep_list", "rep_delay",
            "rep_poll", "info_fetch", "info_body", "content_fetch", "content_body",
            "empty_delay"}

\* the remote work of one file stays within its bounds
BoundedRemoteWork ==
    /\ calls.meta <= 1
    /\ calls.list <= (maxEmptyRetries + 1) * (1 + maxRetries)
    /\ calls.meta + calls.list <= 13
    /\ calls.info <= maxEmptyRetries + 1
    /\ calls.content <= maxEmptyRetries + 1

\* C31: whatever the service answers, the work on one file comes to its end,
\* and by then it has made at most 13 getFileById calls (the metadata lookup
\* and three resolutions of one listing and at most three polls), at most 3
\* info fetches and at most 3 content fetches.
C31_BoundedFileWork ==
    /\ []BoundedRemoteWork
    /\ (InLoadFileById ~> (pc = "file_return"))

\* a file that used all of it: 13 getFileById calls, 3 info and 3 content fetches
C31_Witness ==
    /\ pc = "file_return"
    /\ calls.meta = 1 /\ calls.list = 12 /\ calls.info = 3 /\ calls.content = 3


(***************************************************************************)
(* C32                                                                     *)
(***************************************************************************)
\* load() is over and the lazyLoad() that followed it has been drained
BothDone == past # << >> /\ entry = "lazyLoad" /\ outcome # "running"

\* lazyLoad() gave what load() gave
SameResult ==
    /\ yielded = past[1].documents
    /\ (outcome = "threw") = (past[1].outcome = "threw")

\* a page request after the first page of some folder failed in this run
LaterPageFailed ==
    \E i \in 1..Len(folderCalls) : folderCalls[i].offset > 0 /\ folderCalls[i].answer = "throw"

\* C32: against a service that answers every request the same way each
\* time, a drained lazyLoad() yields the Documents load() returned, in the
\* same order, and throws exactly if load() threw.
C32_LazyEqualsLoad == BothDone => SameResult

\* C32, the runs in which the two do agree: with an id list that is not empty and no page
\* request failing after a folder's first page.
C32_AgreeOtherwise ==
    (BothDone /\ boxFileIds # << >> /\ ~LaterPageFailed) => SameResult

\* an empty id list and no folder: load() returned no Documents, lazyLoad() threw
C32_Witness ==
    /\ BothDone
    /\ boxFileIds = << >> /\ boxFolderId = Absent
    /\ past[1].outcome = "returned" /\ past[1].documents = << >>
    /\ outcome = "threw"


(***************************************************************************)
(* C33                                                                     *)
(***************************************************************************)
\* the resolution goes on to another listing: it waits for a poll or makes it
PollAhead == pc \in {"rep_delay", "rep_poll"}

\* the last listing reported the chosen kind as ready, or in state 'none' or 'error'
SaidTerminal ==
    /\ said.kind = "ok" /\ said.entry # NoEntry
    /\ IsReady(said.entry) \/ said.entry.state \in {"none", "error"}

\* C33: after a listing that reports the chosen kind ready, or in state
\* 'none' or 'error', no further listing is made in that resolution.
C33_TerminalStopsPolling == SaidTerminal => ~PollAhead

\* C33, what does hold: a terminal report in the first listing of a
\* resolution, and a ready report in any listing, is followed by no poll.
C33_FirstOrReadyStops ==
    (SaidTerminal /\ (Len(heard) = 1 \/ IsReady(said.entry))) => ~PollAhead

\* the first poll reported 'error', and the delay of the second poll has begun
C33_Witness ==
    /\ pc = "rep_delay" /\ Len(heard) = 2 /\ rep.attempt = 2
    /\ said.kind = "ok" /\ said.entry.state = "error"


(***************************************************************************)
(* C34                                                                     *)
(***************************************************************************)
\* loadFileById is about to return a Document
DocumentMade == pc = "file_return" /\ doc # NoDocument

\* C34: with characterLimit absent, zero or negative the Document's content
\* is the whole text or diagnostic retrieved.
C34_NoTruncation ==
    (DocumentMade /\ (characterLimit = NoNumber \/ characterLimit[1] <= 0)) =>
        doc.pageContent = file.content

\* C34, what does hold: with characterLimit absent or zero nothing is cut,
\* and with a negative characterLimit nothing is left.
C34_AbsentOrZero ==
    DocumentMade =>
        /\ (characterLimit = NoNumber \/ characterLimit[1] = 0) =>
              doc.pageContent = file.content
        /\ (characterLimit # NoNumber /\ characterLimit[1] < 0) =>
              doc.pageContent = << >>

\* characterLimit -1: the text 'hello world' was retrieved, the Document's
\* content is empty
C34_Witness ==
    /\ DocumentMade
    /\ characterLimit = <<-1>>
    /\ file.content = T_HelloWorld
    /\ doc.pageContent = << >>


(***************************************************************************)
(* C35                                                                     *)
(***************************************************************************)
\* the ids of the files in the pages this run received
ReceivedFileIds ==
    LET okCalls == { i \in 1..Len(folderCalls) : folderCalls[i].answer = "ok" }
        page(i) == FolderPageOf(folderCalls[i].folderId, flatSize, folderCalls[i].offset,
                                folderCalls[i].limit)
    IN  { page(i)[k].id : <<i, k>> \in
            { <<i, k>> \in okCalls \X (1..limit) : k <= Len(page(i)) /\ page(i)[k].type = "file" } }

\* every file of a received page has its Document in what the caller got
ReceivedPagesKept ==
    \A id \in ReceivedFileIds : \E i \in 1..Len(Output) : Output[i].metadata.file_id = id

\* C35: when the request for a later page of a folder fails, the files of
\* the pages received before it still have their Documents in the result,
\* in load() as in lazyLoad().
C35_EarlierPagesKept ==
    (outcome # "running" /\ LaterPageFailed) => ReceivedPagesKept

\* C35, the half that holds: a drained lazyLoad() has yielded the Documents
\* of the pages received before the failure.
C35_LazyKeepsEarlierPages ==
    (outcome # "running" /\ LaterPageFailed /\ entry = "lazyLoad") => ReceivedPagesKept

\* load() of a folder of 101 files: the first page brought 100 entries, the
\* request at offset 100 failed, and load() returned no Document
C35_Witness ==
    /\ entry = "load" /\ outcome = "returned"
    /\ boxFolderId = D30 /\ flatSize = 101
    /\ Len(folderCalls) = 2
    /\ folderCalls[1].answer = "ok" /\ folderCalls[1].received = 100
    /\ folderCalls[2].offset = 100 /\ folderCalls[2].answer = "throw"
    /\ documents = << >>


(***************************************************************************)
(* C36                                                                     *)
(***************************************************************************)
\* the folders below the entries of a folder
RECURSIVE FoldersOfEntries(_)
FoldersOfEntries(entries) ==
    IF entries = << >> THEN {}
    ELSE IF Len(entries) = 1
    THEN LET e == entries[1]
         IN  IF e.type = "folder"
             THEN {e.id} \cup FoldersOfEntries(FolderEntriesOf(e.id, flatSize))
             ELSE {}
    ELSE LET half == Len(entries) \div 2
         IN  FoldersOfEntries(SubSeq(entries, 1, half))
                \cup FoldersOfEntries(SubSeq(entries, half + 1, Len(entries)))

\* the folders the run has to enumerate
ExpectedFolders ==
    IF IdsMode \/ ~Truthy(boxFolderId) THEN {}
    ELSE {boxFolderId} \cup
         (IF recursive THEN FoldersOfEntries(FolderEntriesOf(boxFolderId, flatSize)) ELSE {})

\* every folder to be expanded was listed up to a short page, and
\* loadFileById was called for every file of the input, in order
EverythingVisited ==
    /\ attempted = ExpectedAttempts
    /\ ListedFolders = ExpectedFolders
    /\ \A f \in ListedFolders :
          CallsOf(f)[Len(CallsOf(f))].received < limit

\* the run has nothing to work with: no client can be made for the folder
\* traversal, or lazyLoad() has neither ids nor a folder
NothingToRun == ~IdsMode /\ (auth = "badauth" \/ ~Truthy(boxFolderId))

\* C36: for an id list, or a folder tree whose listings the service
\* answers, load() comes to its return and a drained lazyLoad() to its
\* completion, by then having called loadFileById for every file of the
\* input and listed every folder to be expanded to its last page; a run
\* ends by exception only when it has nothing to run on.
C36_TerminatesComplete ==
    /\ <>(outcome # "running")
    /\ []((outcome = "returned" /\ AllListingsOk) => EverythingVisited)
    /\ []((outcome = "threw") <=> NothingToRun /\ outcome # "running")

\* lazyLoad() of a flat folder of 101 files is drained: two pages, 101 attempts
C36_Witness ==
    /\ entry = "lazyLoad" /\ outcome = "returned" /\ AllListingsOk
    /\ boxFolderId = D30 /\ flatSize = 101
    /\ Len(attempted) = 101 /\ Len(folderCalls) = 2
    /\ EverythingVisited


(***************************************************************************)
(* C37                                                                     *)
(***************************************************************************)
\* the kind chosen for the file in work, from the name its lookup reported
ChosenKind == getRepresentationTypeForFilename(file.fileName)

\* C37: every representation listing made for a file (the first one, each
\* poll, and those of the empty-result retries) carries as hint the kind
\* chosen from the file's name, one and the same in all of them.
C37_OneKindPerFile ==
    /\ Len(calls.hints) = calls.list
    /\ \A i \in 1..Len(calls.hints) : calls.hints[i] = ChosenKind
    /\ calls.list > 0 => file.repType = ChosenKind

\* a.txt after its first listing, three polls, an empty text and the first
\* listing of the retry: five listings, all for extracted_text
C37_Witness ==
    /\ file.fileName = N_a_txt
    /\ file.emptyAttempt = 1
    /\ Len(delays) = 0 /\ Len(emptyDelays) = 1
    /\ calls.hints = << S_extracted_text, S_extracted_text, S_extracted_text,
                        S_extracted_text, S_extracted_text >>


(***************************************************************************)
(* C38                                                                     *)
(***************************************************************************)
\* the entries received in the first n calls of cs
RECURSIVE ReceivedIn(_, _)
ReceivedIn(cs, n) == IF n = 0 THEN 0 ELSE ReceivedIn(cs, n - 1) + cs[n].received

\* C38: in the enumeration of a folder every listing call has limit 100,
\* the first has offset 0 and each later one has as offset the number of
\* entries the earlier calls for that folder received; the offsets grow
\* strictly, and no position is asked for by two calls.
C38_OffsetsFollowReceived ==
    \A f \in ListedFolders :
       LET cs == CallsOf(f)
       IN  /\ cs[1].offset = 0
           /\ \A i \in 1..Len(cs) :
                 /\ cs[i].limit = 100
                 /\ cs[i].offset = ReceivedIn(cs, i - 1)
           /\ \A i, j \in 1..Len(cs) :
                 i < j => /\ cs[i].offset < cs[j].offset
                          /\ cs[i].offset + cs[i].limit <= cs[j].offset

\* a flat folder of 201 files, drained by lazyLoad(): calls at 0, 100, 200
C38_Witness ==
    /\ entry = "lazyLoad" /\ outcome = "returned"
    /\ boxFolderId = D30 /\ flatSize = 201
    /\ Len(folderCalls) = 3
    /\ folderCalls[1].offset = 0 /\ folderCalls[1].received = 100
    /\ folderCalls[2].offset = 100 /\ folderCalls[2].received = 100
    /\ folderCalls[3].offset = 200 /\ folderCalls[3].received = 1


(***************************************************************************)
(* C39                                                                     *)
(***************************************************************************)
\* the first content fetch of the file in work succeeded with blank text
FirstFetchBlank == fetched # << >> /\ fetched[1] = [attempt |-> 0, text |-> T_Empty]

\* the empty-result retry has been entered for the file in work
RetryEntered == file.emptyAttempt > 0 \/ pc = "empty_delay" \/ emptyDelays # << >>

\* one resolve-and-fetch sequence at most: the listings are those of one
\* resolution, with at most one info fetch and one content fetch
OneSequence ==
    /\ calls.list = Len(heard)
    /\ calls.list <= 1 + maxRetries
    /\ calls.info <= 1
    /\ calls.content <= 1

\* C39: the empty-result retry is entered only after the first content fetch
\* succeeded with empty or whitespace-only text; in every other case (text
\* that is not blank, or a diagnostic from the resolution, the info-URL step
\* or the content fetch) the file has one resolve-and-fetch sequence and no
\* retry delay.
C39_RetryOnlyAfterBlank ==
    /\ RetryEntered => FirstFetchBlank
    /\ ~FirstFetchBlank => (OneSequence /\ emptyDelays = << >>)
    /\ (pc = "file_return" /\ FirstFetchBlank) => RetryEntered

\* the first content fetch was answered with status 404: its diagnostic is
\* the content, after one listing, one info fetch and one content fetch
C39_Witness ==
    /\ pc = "file_return" /\ doc # NoDocument
    /\ fault = [kind |-> "content_status", status |-> 404]
    /\ file.content = FailedToFetch(file.repType, file.fileName, 404)
    /\ calls.list = 1 /\ calls.info = 1 /\ calls.content = 1
    /\ emptyDelays = << >> /\ file.emptyAttempt = 0

=============================================================================
